---- MODULE Spec2Model ----
(***************************************************************************)
(* Layer logic library: LayerValidator, LayerImageResolver,                *)
(* LayerLogicBasic, LayerLogicSpin/Orbit/Pulse/Fade, LayerProducer and     *)
(* LayerPipeline, modelled as a state machine of library calls made by a   *)
(* caller that keeps (and may write to) the objects the calls return.      *)
(*                                                                         *)
(* JavaScript values are tagged records:                                   *)
(*   undefined, null, string, boolean, number (an exact rational n/d, or   *)
(*   NaN / Infinity), object (a record of fields), array (a sequence).     *)
(* A module-level object that the code hands out by reference is a "ref"   *)
(* value naming the object; its fields live in the variable that holds the *)
(* object, so that a write through the reference is seen by every holder.  *)
(***************************************************************************)
EXTENDS Integers, Sequences, FiniteSets, TLC

VARIABLES
  defaults,   \* LayerValidator's module-level Vec2 objects DEFAULT_POSITION, ...
  registry,   \* the caller's Map<string, AssetMeta> (ctx.registry)
  time,       \* ctx.time
  config,     \* the caller's LibraryConfig, handed to every pipeline call
  lastRef,    \* the AssetRef of the last direct resolveAsset call (else Undef)
  op,         \* the library function called last
  wrappers,   \* the array given to compose() in the last call (else <<>>)
  pc,         \* "idle" | "returned" | "thrown" | "mutated"
  result,     \* what the last call returned or threw, as the caller holds it
  regBefore,  \* the registry as it was when the last call started
  mutations,  \* number of writes the caller made to returned objects
  behavior,   \* the prev, config (and baseCenter) handed to a behavior function
  elapsed,    \* the times of the spin calls chained so far, added up
  mapping,    \* the arguments handed to a mapping function, and the calls chained
  engine      \* a StagesEngine: its fields, its container and its mount calls

vars == <<defaults, registry, time, config, lastRef, op, wrappers, pc,
          result, regBefore, mutations, behavior, elapsed, mapping, engine>>

----------------------------------------------------------------------------
(* JavaScript values *)

Undef == [t |-> "undefined"]
Null == [t |-> "null"]
Str(s) == [t |-> "string", s |-> s]
Bool(b) == [t |-> "boolean", b |-> b]
NaN == [t |-> "number", special |-> "NaN"]
Infinity == [t |-> "number", special |-> "Infinity"]

RECURSIVE Gcd(_, _)
Gcd(a, b) == IF b = 0 THEN a ELSE Gcd(b, a % b)

Abs(n) == IF n < 0 THEN -n ELSE n

\* the finite number n/d, in lowest terms with d > 0
Rat(n, d) ==
  LET s == IF d < 0 THEN -1 ELSE 1
      g == Gcd(Abs(n), Abs(d))
  IN  [t |-> "number", n |-> (s * n) \div g, d |-> (s * d) \div g]

Num(n) == [t |-> "number", n |-> n, d |-> 1]

Vec(x, y) == [t |-> "object", x |-> Num(x), y |-> Num(y)]

Arr(items) == [t |-> "array", items |-> items]

IsUndefined(v) == v.t = "undefined"

\* typeof v === "number" && Number.isFinite(v)
IsFinite(v) == v.t = "number" /\ "n" \in DOMAIN v

\* arithmetic and comparison of finite numbers
QAdd(a, b) == Rat(a.n * b.d + b.n * a.d, a.d * b.d)
QSub(a, b) == Rat(a.n * b.d - b.n * a.d, a.d * b.d)
QMul(a, b) == Rat(a.n * b.n, a.d * b.d)
QDiv(a, b) == Rat(a.n * b.d, a.d * b.n)
QNeg(a) == Rat(-a.n, a.d)
QLt(a, b) == a.n * b.d < b.n * a.d
QLe(a, b) == a.n * b.d <= b.n * a.d
QMax(a, b) == IF QLt(a, b) THEN b ELSE a
QMin(a, b) == IF QLt(b, a) THEN b ELSE a

\* JavaScript truthiness (!!v)
Truthy(v) ==
  CASE v.t = "undefined" -> FALSE
    [] v.t = "null" -> FALSE
    [] v.t = "string" -> v.s /= ""
    [] v.t = "boolean" -> v.b
    [] v.t = "number" -> IF IsFinite(v) THEN v.n /= 0 ELSE v.special /= "NaN"
    [] OTHER -> TRUE

\* v ?? w
Coalesce(v, w) == IF v.t \in {"undefined", "null"} THEN w ELSE v

\* obj?.[f] on a value that may be undefined, null, a primitive or an object
Get(obj, f) ==
  IF obj.t = "object" /\ f \in DOMAIN obj THEN obj[f] ELSE Undef

\* String(v) / template interpolation of a value
ToStr(v) ==
  CASE v.t = "undefined" -> "undefined"
    [] v.t = "null" -> "null"
    [] v.t = "string" -> v.s
    [] v.t = "boolean" -> IF v.b THEN "true" ELSE "false"
    [] v.t = "number" ->
         IF IsFinite(v)
         THEN IF v.d = 1 THEN ToString(v.n)
              ELSE ToString(v.n) \o "/" \o ToString(v.d)
         ELSE v.special
    [] OTHER -> "[object Object]"

----------------------------------------------------------------------------
(* LayerValidator: defaults, guards and helpers *)

DEFAULT_STAGE == [width |-> Num(2048), height |-> Num(2048), origin |-> Str("center")]

DEFAULT_ANCHOR == [t |-> "object", x |-> Rat(1, 2), y |-> Rat(1, 2)]
DEFAULT_POSITION == Vec(0, 0)
DEFAULT_TILT == Vec(0, 0)
DEFAULT_SCALE == Vec(1, 1)
DEFAULT_OPACITY == Num(1)

DEFAULT_BEHAVIORS ==
  [spin |-> [enabled |-> Bool(FALSE), rpm |-> Num(0), direction |-> Str("cw")],
   orbit |-> [enabled |-> Bool(FALSE), rpm |-> Num(0), radius |-> Num(0)],
   pulse |-> [enabled |-> Bool(FALSE), amplitude |-> Num(0), rpm |-> Num(0)],
   fade |-> [enabled |-> Bool(FALSE), from |-> Num(1), to |-> Num(1), rpm |-> Num(0)]]

\* the module-level Vec2 objects as first loaded
ModuleDefaults ==
  [DEFAULT_ANCHOR |-> DEFAULT_ANCHOR, DEFAULT_POSITION |-> DEFAULT_POSITION,
   DEFAULT_TILT |-> DEFAULT_TILT, DEFAULT_SCALE |-> DEFAULT_SCALE]

\* a reference to one of the module-level objects
Ref(name) == [t |-> "ref", obj |-> name]

\* the object a Vec2-valued field denotes, given the module-level objects D
Deref(v, D) == IF v.t = "ref" THEN D[v.obj] ELSE v

isNum(n) == IsFinite(n)

isVec2(v) ==
  /\ Truthy(v)
  /\ v.t = "object"
  /\ isNum(Get(v, "x"))
  /\ isNum(Get(v, "y"))

IsStr(v, s) == v.t = "string" /\ v.s = s

isFitMode(m) == m.t = "string" /\ m.s \in {"contain", "cover", "stretch"}

Alignments ==
  {"center", "top-left", "top", "top-right", "left", "right",
   "bottom-left", "bottom", "bottom-right"}

isAlignment(a) == a.t = "string" /\ a.s \in Alignments

isOrigin(o) == o.t = "string" /\ o.s \in {"center", "top-left"}

\* a clamp that lets every number through
clamp01_Off(n) == n

clamp01(n) == QMax(Num(0), QMin(Num(1), n))

normalizeScale(scale) ==
  IF isNum(scale) THEN [t |-> "object", x |-> scale, y |-> scale]
  ELSE IF isVec2(scale) THEN [t |-> "object", x |-> scale.x, y |-> scale.y]
  ELSE Ref("DEFAULT_SCALE")

\* toAssetRef without the conflict test: a layer that gives both keeps its path
toAssetRef_PathWins(layer) ==
  LET hasPath == layer.imagePath.t = "string" /\ layer.imagePath.s /= ""
      hasKey == layer.registryKey.t = "string" /\ layer.registryKey.s /= ""
  IN  IF ~hasPath /\ ~hasKey THEN Null
      ELSE IF hasPath THEN [type |-> "path", path |-> layer.imagePath.s]
      ELSE [type |-> "registry", key |-> layer.registryKey.s]

toAssetRef(layer) ==
  LET hasPath == layer.imagePath.t = "string" /\ layer.imagePath.s /= ""
      hasKey == layer.registryKey.t = "string" /\ layer.registryKey.s /= ""
  IN  IF hasPath /\ hasKey THEN Null
      ELSE IF ~hasPath /\ ~hasKey THEN Null
      ELSE IF hasPath THEN [type |-> "path", path |-> layer.imagePath.s]
      ELSE [type |-> "registry", key |-> layer.registryKey.s]

\* a number taken over only after clamping it into [0,1]
NumOr_Clamped(v, dflt) == IF isNum(v) THEN clamp01(v) ELSE dflt

\* isNum(v) ? v : dflt
NumOr(v, dflt) == IF isNum(v) THEN v ELSE dflt

normalizeBehaviors(b) ==
  LET spin == Get(b, "spin")
      orbit == Get(b, "orbit")
      pulse == Get(b, "pulse")
      fade == Get(b, "fade")
      center == Get(orbit, "center")
  IN  [spin |->
         [enabled |-> Coalesce(Get(spin, "enabled"), DEFAULT_BEHAVIORS.spin.enabled),
          rpm |-> NumOr(Get(spin, "rpm"), DEFAULT_BEHAVIORS.spin.rpm),
          direction |-> Coalesce(Get(spin, "direction"), Str("cw"))],
       orbit |->
         [enabled |-> Coalesce(Get(orbit, "enabled"), DEFAULT_BEHAVIORS.orbit.enabled),
          rpm |-> NumOr(Get(orbit, "rpm"), DEFAULT_BEHAVIORS.orbit.rpm),
          radius |-> NumOr(Get(orbit, "radius"), DEFAULT_BEHAVIORS.orbit.radius),
          center |-> IF Truthy(center) /\ isVec2(center) THEN center ELSE Undef],
       pulse |->
         [enabled |-> Coalesce(Get(pulse, "enabled"), DEFAULT_BEHAVIORS.pulse.enabled),
          amplitude |-> NumOr(Get(pulse, "amplitude"), DEFAULT_BEHAVIORS.pulse.amplitude),
          rpm |-> NumOr(Get(pulse, "rpm"), DEFAULT_BEHAVIORS.pulse.rpm)],
       fade |->
         [enabled |-> Coalesce(Get(fade, "enabled"), DEFAULT_BEHAVIORS.fade.enabled),
          from |-> IF isNum(Get(fade, "from")) THEN clamp01(Get(fade, "from"))
                   ELSE DEFAULT_BEHAVIORS.fade.from,
          to |-> IF isNum(Get(fade, "to")) THEN clamp01(Get(fade, "to"))
                 ELSE DEFAULT_BEHAVIORS.fade.to,
          rpm |-> NumOr(Get(fade, "rpm"), DEFAULT_BEHAVIORS.fade.rpm)]]

Issue(code, path, message, severity) ==
  [code |-> code, path |-> path, message |-> message, severity |-> severity]

Err(code, path, message) == Issue(code, path, message, "error")
Warn(code, path, message) == Issue(code, path, message, "warning")

\* cond ? <<issue>> : <<>>  (one conditional errors.push / warnings.push)
PushIf(cond, issue) == IF cond THEN <<issue>> ELSE <<>>

----------------------------------------------------------------------------
(* LayerValidator: validateEvents *)

EventKeys == <<"onPress", "onHover", "onRelease">>

KnownAction(action) ==
  action.t = "string" /\ action.s \in {"spin", "orbit", "pulse", "fade"}

\* the errors one list entry records (the body of list.forEach)
EntryErrors(entry, path) ==
  LET action == Get(entry, "action")
      set == Get(entry, "set")
      bad(f) == ~IsUndefined(Get(set, f)) /\ ~isNum(Get(set, f))
  IN  IF ~KnownAction(action)
      THEN <<Err("events.action.unknown", path,
                 "unknown action \"" \o ToStr(action) \o "\" (spin|orbit|pulse|fade)")>>
      ELSE IF Truthy(set) /\ set.t \notin {"object", "array", "null"}
      THEN <<Err("events.set.invalid", path, "set must be an object")>>
      ELSE
        PushIf(bad("rpm"), Err("events.set.rpm", path, "rpm must be number"))
        \o PushIf(~IsUndefined(Get(set, "enabled")) /\ Get(set, "enabled").t /= "boolean",
                  Err("events.set.enabled", path, "enabled must be boolean"))
        \o PushIf(/\ action.s = "spin"
                  /\ Truthy(Get(set, "direction"))
                  /\ ~IsStr(Get(set, "direction"), "cw")
                  /\ ~IsStr(Get(set, "direction"), "ccw"),
                  Err("events.set.direction", path, "direction must be \"cw\"|\"ccw\""))
        \o PushIf(action.s = "orbit" /\ bad("radius"),
                  Err("events.set.radius", path, "radius must be number"))
        \o PushIf(/\ action.s = "orbit"
                  /\ ~IsUndefined(Get(set, "center"))
                  /\ ~isVec2(Get(set, "center")),
                  Err("events.set.center", path, "center must be {x,y}"))
        \o PushIf(action.s = "pulse" /\ bad("amplitude"),
                  Err("events.set.amplitude", path, "amplitude must be number"))
        \o PushIf(action.s = "fade" /\ bad("from"),
                  Err("events.set.from", path, "from must be number"))
        \o PushIf(action.s = "fade" /\ bad("to"),
                  Err("events.set.to", path, "to must be number"))

\* whether list.forEach reaches normalized.push(entry) for this entry
EntryKept(entry) ==
  LET set == Get(entry, "set")
  IN  /\ KnownAction(Get(entry, "action"))
      /\ ~(Truthy(set) /\ set.t \notin {"object", "array", "null"})

\* list.forEach over entries idx..Len(items): [errors, normalized]
RECURSIVE EventList(_, _, _)
EventList(items, idx, keyPath) ==
  IF idx > Len(items) THEN [errors |-> <<>>, normalized |-> <<>>]
  ELSE [errors |->
          EntryErrors(items[idx], keyPath \o "[" \o ToString(idx - 1) \o "]")
          \o EventList(items, idx + 1, keyPath).errors,
        normalized |->
          (IF EntryKept(items[idx]) THEN <<items[idx]>> ELSE <<>>)
          \o EventList(items, idx + 1, keyPath).normalized]

\* an assignment that stores the kept entries last to first
KeyOut_Reversed(r) ==
  [errors |-> r.errors,
   out |-> Arr([j \in 1..Len(r.normalized) |-> r.normalized[Len(r.normalized) + 1 - j]])]

\* the value (out as any)[k] = normalized gives out[k]
KeyOut(r) == [errors |-> r.errors, out |-> Arr(r.normalized)]

\* one round of "for (const k of keys)": [errors, value of out[k] or Undef]
EventKey(list, keyPath) ==
  IF ~Truthy(list) THEN [errors |-> <<>>, out |-> Undef]
  ELSE IF list.t /= "array"
  THEN [errors |-> <<Err("events.invalid", keyPath, "must be an array")>>,
        out |-> Undef]
  ELSE KeyOut(EventList(list.items, 1, keyPath))

\* the three rounds of the loop, in the order of keys
EventRounds(p, h, r) ==
  [out |-> [onPress |-> p.out, onHover |-> h.out, onRelease |-> r.out],
   errors |-> p.errors \o h.errors \o r.errors]

\* returns the EventHooks object and the errors pushed to the caller's array
validateEvents(hooks, basePath) ==
  EventRounds(EventKey(Get(hooks, "onPress"), basePath \o ".onPress"),
              EventKey(Get(hooks, "onHover"), basePath \o ".onHover"),
              EventKey(Get(hooks, "onRelease"), basePath \o ".onRelease"))

----------------------------------------------------------------------------
(* LayerValidator: validateLibraryConfig *)

LayerBase(idx) == "layers[" \o ToString(idx) \o "]"

\* the layerId test of the forEach body (line 223)
IdMissing(layer) ==
  \/ ~Truthy(layer)
  \/ layer.t /= "object"
  \/ layer.layerId.t /= "string"
  \/ layer.layerId.s = ""

Negative(n) == QLt(n, Num(0))
OutOf01(n) == QLt(n, Num(0)) \/ QLt(Num(1), n)

\* the container checks without the test for a width or height that is not positive
ContainerErrors_NoSizeCheck(base, width, height, fitMode, alignment) ==
  PushIf(~IsUndefined(fitMode) /\ ~isFitMode(fitMode),
         Err("layer.fit.invalid", base \o ".fitMode",
             "fitMode must be contain|cover|stretch"))
  \o PushIf(~IsUndefined(alignment) /\ ~isAlignment(alignment),
            Err("layer.alignment.invalid", base \o ".alignment", "invalid alignment"))
  \o PushIf(/\ ~IsUndefined(fitMode) \/ ~IsUndefined(alignment)
            /\ ~Truthy(width) \/ ~Truthy(height),
            Err("layer.container.missing", base,
                "fitMode/alignment requires layerWidth and layerHeight"))

\* the container checks (lines 267-288) on the finite-or-undefined width and height
ContainerErrors(base, width, height, fitMode, alignment) ==
  PushIf(~IsUndefined(fitMode) /\ ~isFitMode(fitMode),
         Err("layer.fit.invalid", base \o ".fitMode",
             "fitMode must be contain|cover|stretch"))
  \o PushIf(~IsUndefined(alignment) /\ ~isAlignment(alignment),
            Err("layer.alignment.invalid", base \o ".alignment", "invalid alignment"))
  \o PushIf(/\ ~IsUndefined(fitMode) \/ ~IsUndefined(alignment)
            /\ ~Truthy(width) \/ ~Truthy(height),
            Err("layer.container.missing", base,
                "fitMode/alignment requires layerWidth and layerHeight"))
  \o PushIf(\/ ~IsUndefined(width) /\ QLe(width, Num(0))
            \/ ~IsUndefined(height) /\ QLe(height, Num(0)),
            Err("layer.container.nonPositive", base,
                "layerWidth/layerHeight must be positive numbers"))

\* the range warnings on opacity and anchor (lines 254-259); a is the anchor object
RangeWarnings(base, opacity, a) ==
  PushIf(OutOf01(opacity),
         Warn("layer.opacity.range", base \o ".opacity", "opacity should be within [0,1]"))
  \o PushIf(OutOf01(a.x) \/ OutOf01(a.y),
            Warn("layer.anchor.range", base \o ".anchor", "anchor should be [0..1]"))

\* the range warnings on the normalized behaviors (lines 292-303)
BehaviorWarnings(base, behaviors) ==
  PushIf(Negative(behaviors.orbit.radius) \/ Negative(behaviors.orbit.rpm),
         Warn("behavior.orbit.range", base \o ".behaviors.orbit",
              "rpm & radius should be >= 0"))
  \o PushIf(Negative(behaviors.spin.rpm),
            Warn("behavior.spin.range", base \o ".behaviors.spin.rpm", "rpm should be >= 0"))
  \o PushIf(Negative(behaviors.pulse.rpm) \/ Negative(behaviors.pulse.amplitude),
            Warn("behavior.pulse.range", base \o ".behaviors.pulse",
                 "rpm & amplitude should be >= 0"))
  \o PushIf(Negative(behaviors.fade.rpm),
            Warn("behavior.fade.range", base \o ".behaviors.fade.rpm", "rpm should be >= 0"))

\* the container of the packed layer (lines 320-323)
PackContainer(width, height, fitMode, alignment) ==
  IF Truthy(width) \/ Truthy(height) \/ Truthy(fitMode) \/ Truthy(alignment)
  THEN [t |-> "object", width |-> width, height |-> height,
        fitMode |-> fitMode, alignment |-> alignment]
  ELSE Undef

\* the forEach body after the asset check, given the values it computed:
\* what it pushes to errors, warnings and normalizedLayers
PackLayer(layer, base, assetRef, anchor, opacity, behaviors, events, D) ==
  [errors |->
     ContainerErrors(base, NumOr(layer.layerWidth, Undef), NumOr(layer.layerHeight, Undef),
                     layer.fitMode, layer.alignment)
     \o events.errors,
   warnings |->
     RangeWarnings(base, opacity, Deref(anchor, D)) \o BehaviorWarnings(base, behaviors),
   layers |->
     <<[layerId |-> layer.layerId.s,
        assetRef |-> assetRef,
        position |-> IF isVec2(layer.position) THEN layer.position
                     ELSE Ref("DEFAULT_POSITION"),
        scale |-> normalizeScale(layer.scale),
        angle |-> NumOr(layer.angle, Num(0)),
        tilt |-> IF isVec2(layer.tilt) THEN layer.tilt ELSE Ref("DEFAULT_TILT"),
        anchor |-> anchor,
        opacity |-> opacity,
        behaviors |-> behaviors,
        events |-> events.out,
        container |-> PackContainer(NumOr(layer.layerWidth, Undef),
                                    NumOr(layer.layerHeight, Undef),
                                    layer.fitMode, layer.alignment)]>>]

\* the forEach body after the asset check (lines 246-326)
LayerBody(layer, idx, assetRef, D) ==
  PackLayer(layer, LayerBase(idx), assetRef,
            IF isVec2(layer.anchor) THEN layer.anchor ELSE Ref("DEFAULT_ANCHOR"),
            NumOr(layer.opacity, DEFAULT_OPACITY),
            normalizeBehaviors(layer.behaviors),
            validateEvents(layer.events, LayerBase(idx) \o ".events"), D)

NoPush == [errors |-> <<>>, warnings |-> <<>>, layers |-> <<>>]

\* the asset check (lines 234-244) and what follows it
AssetChecked(layer, idx, assetRef, D) ==
  IF assetRef = Null
  THEN [NoPush EXCEPT
          !.errors =
            <<Err("layer.asset.invalid", LayerBase(idx),
                  IF Truthy(layer.imagePath) /\ Truthy(layer.registryKey)
                  THEN "imagePath and registryKey are mutually exclusive"
                  ELSE "one of imagePath or registryKey is required")>>]
  ELSE LayerBody(layer, idx, assetRef, D)

\* the callback with the "return" after the duplicate error left out
ValidateLayer_NoStop(layer, idx, seen, D) ==
  IF IdMissing(layer)
  THEN [NoPush EXCEPT !.errors =
          <<Err("layer.id.missing", LayerBase(idx) \o ".layerId", "layerId required")>>]
  ELSE IF layer.layerId.s \in seen
  THEN [AssetChecked(layer, idx, toAssetRef(layer), D) EXCEPT !.errors =
          <<Err("layer.id.duplicate", LayerBase(idx) \o ".layerId",
                "duplicate \"" \o layer.layerId.s \o "\"")>> \o @]
  ELSE AssetChecked(layer, idx, toAssetRef(layer), D)

\* one call of the input.layers.forEach callback: what it pushes to errors,
\* warnings and normalizedLayers
ValidateLayer(layer, idx, seen, D) ==
  IF IdMissing(layer)
  THEN [NoPush EXCEPT !.errors =
          <<Err("layer.id.missing", LayerBase(idx) \o ".layerId", "layerId required")>>]
  ELSE IF layer.layerId.s \in seen
  THEN [NoPush EXCEPT !.errors =
          <<Err("layer.id.duplicate", LayerBase(idx) \o ".layerId",
                "duplicate \"" \o layer.layerId.s \o "\"")>>]
  ELSE AssetChecked(layer, idx, toAssetRef(layer), D)

\* seen after the callback ran on layer: seen.add is reached past both id checks
SeenAfter(layer, seen) ==
  IF IdMissing(layer) THEN seen ELSE seen \cup {layer.layerId.s}

\* the arrays and the set after one more callback
Pushed(acc, r, seen) ==
  [errors |-> acc.errors \o r.errors, warnings |-> acc.warnings \o r.warnings,
   layers |-> acc.layers \o r.layers, seen |-> seen]

\* input.layers.forEach from element i on, with the accumulators so far
RECURSIVE ValidateLayers(_, _, _, _)
ValidateLayers(items, i, acc, D) ==
  IF i > Len(items) THEN acc
  ELSE ValidateLayers(items, i + 1,
         Pushed(acc, ValidateLayer(items[i], i - 1, acc.seen, D),
                SeenAfter(items[i], acc.seen)), D)

\* a stage block that keeps any finite raw size, positive or not
StageOf_KeepsSize(w, h, o) ==
  [stage |->
     [width |-> IF isNum(w) THEN w ELSE DEFAULT_STAGE.width,
      height |-> IF isNum(h) THEN h ELSE DEFAULT_STAGE.height,
      origin |-> IF isOrigin(o) THEN o ELSE DEFAULT_STAGE.origin],
   warnings |->
     PushIf(~IsUndefined(o) /\ ~isOrigin(o),
            Warn("stage.origin.invalid", "stage.origin",
                 "unknown origin \"" \o ToStr(o) \o "\", fallback to \""
                   \o DEFAULT_STAGE.origin.s \o "\""))]

\* the stage built from the raw width, height and origin (lines 196-208)
StageOf(w, h, o) ==
  [stage |->
     [width |-> IF isNum(w) /\ QLt(Num(0), w) THEN w ELSE DEFAULT_STAGE.width,
      height |-> IF isNum(h) /\ QLt(Num(0), h) THEN h ELSE DEFAULT_STAGE.height,
      origin |-> IF isOrigin(o) THEN o ELSE DEFAULT_STAGE.origin],
   warnings |->
     PushIf(~IsUndefined(o) /\ ~isOrigin(o),
            Warn("stage.origin.invalid", "stage.origin",
                 "unknown origin \"" \o ToStr(o) \o "\", fallback to \""
                   \o DEFAULT_STAGE.origin.s \o "\""))]

NormalizeStage(input) ==
  StageOf(Get(Get(input, "stage"), "width"), Get(Get(input, "stage"), "height"),
          Get(Get(input, "stage"), "origin"))

\* the return statement handing out the layers that did normalize even on failure
ValidationResult_Partial(errors, warnings, stage, layers) ==
  [ok |-> Len(errors) = 0, errors |-> errors, warnings |-> warnings,
   normalized |-> [stage |-> stage, layers |-> layers]]

\* the return statement (lines 329-332)
ValidationResult(errors, warnings, stage, layers) ==
  IF Len(errors) = 0
  THEN [ok |-> TRUE, errors |-> errors, warnings |-> warnings,
        normalized |-> [stage |-> stage, layers |-> layers]]
  ELSE [ok |-> FALSE, errors |-> errors, warnings |-> warnings]

\* the return statement, from the arrays the loop left in acc
Finish(acc, stage) == ValidationResult(acc.errors, acc.warnings, stage, acc.layers)

\* the function past the stage block, given the stage st and the raw layers
ValidateWith(st, layers, D) ==
  IF layers.t /= "array"
  THEN [ok |-> FALSE,
        errors |-> <<Err("layers.missing", "layers", "layers must be an array")>>,
        warnings |-> st.warnings]
  ELSE Finish(ValidateLayers(layers.items, 1,
                [errors |-> <<>>, warnings |-> st.warnings, layers |-> <<>>,
                 seen |-> {}], D),
              st.stage)

\* validateLibraryConfig(input), run with the module-level objects D
validateLibraryConfig(input, D) ==
  ValidateWith(NormalizeStage(input), Get(input, "layers"), D)

----------------------------------------------------------------------------
(* LayerImageResolver *)

\* the anchor object of the registry entry stored under key, by reference
RegistryAnchor(key) == [t |-> "ref", obj |-> "registry.anchor", key |-> key]

Returned(value) == [threw |-> FALSE, value |-> value]
Thrown(message) == [threw |-> TRUE, message |-> message]

\* { ...meta }: every property is copied, so a nested object stays shared
CloneMeta(meta, key) ==
  [meta EXCEPT !.anchor = IF IsUndefined(meta.anchor) THEN Undef
                          ELSE RegistryAnchor(key)]

\* resolveAsset falling back to a bare meta where the key is missing
resolveAsset_Lenient(ref, reg) ==
  IF ref.type = "path"
  THEN Returned([src |-> ref.path, width |-> NaN, height |-> NaN,
                 anchor |-> Undef, dpi |-> Undef])
  ELSE IF ref.type = "registry"
  THEN IF ref.key \notin DOMAIN reg
       THEN Returned([src |-> ref.key, width |-> NaN, height |-> NaN,
                      anchor |-> Undef, dpi |-> Undef])
       ELSE Returned(CloneMeta(reg[ref.key], ref.key))
  ELSE Thrown("unknown asset ref type: " \o ref.type)

resolveAsset(ref, reg) ==
  IF ref.type = "path"
  THEN Returned([src |-> ref.path, width |-> NaN, height |-> NaN,
                 anchor |-> Undef, dpi |-> Undef])
  ELSE IF ref.type = "registry"
  THEN IF ref.key \notin DOMAIN reg
       THEN Thrown("registry key \"" \o ref.key \o "\" not found")
       ELSE Returned(CloneMeta(reg[ref.key], ref.key))
  ELSE Thrown("unknown asset ref type: " \o ref.type)

\* an AssetMeta as the caller reads it: its anchor looked up where it lives
MetaView(meta, reg) ==
  IF meta.anchor.t = "ref" THEN [meta EXCEPT !.anchor = reg[meta.anchor.key].anchor]
  ELSE meta

----------------------------------------------------------------------------
(* LayerLogicBasic *)

\* { ...v } of a Vec2 object
CopyVec(v, D) == LET o == Deref(v, D) IN [t |-> "object", x |-> o.x, y |-> o.y]

applyBasicTransform(layer, D) ==
  [position |-> CopyVec(layer.position, D),
   scale |-> CopyVec(layer.scale, D),
   angle |-> layer.angle,
   tilt |-> CopyVec(layer.tilt, D),
   anchor |-> CopyVec(layer.anchor, D),
   opacity |-> layer.opacity]

----------------------------------------------------------------------------
(* LayerLogicSpin, LayerLogicOrbit, LayerLogicPulse, LayerLogicFade.       *)
(* Math.sin and Math.cos are exact at whole quarter turns, which is where  *)
(* every time and rpm of this model puts them.                             *)

\* the quarter (0..3) an angle of deg degrees falls on; deg is a multiple of 90
Quarter(deg) == (deg.n \div 90) % 4

CosDeg(deg) == CASE Quarter(deg) = 0 -> Num(1)
                 [] Quarter(deg) = 2 -> Num(-1)
                 [] OTHER -> Num(0)

SinDeg(deg) == CASE Quarter(deg) = 1 -> Num(1)
                 [] Quarter(deg) = 3 -> Num(-1)
                 [] OTHER -> Num(0)

\* (rpm * 360 * timeSeconds) / 60
TurnDeg(rpm, timeSeconds) == QDiv(QMul(QMul(rpm, Num(360)), timeSeconds), Num(60))

\* the guard without its rpm test
Inactive_NoRpmGuard(cfg, timeSeconds) ==
  \/ ~Truthy(cfg.enabled)
  \/ ~IsFinite(timeSeconds)

\* !cfg.enabled || cfg.rpm <= 0 || !Number.isFinite(timeSeconds)
Inactive(cfg, timeSeconds) ==
  \/ ~Truthy(cfg.enabled)
  \/ QLe(cfg.rpm, Num(0))
  \/ ~IsFinite(timeSeconds)

\* a spin that turns the same way for both directions
applySpin_Unsigned(prev, cfg, timeSeconds) ==
  IF Inactive(cfg, timeSeconds) THEN [angle |-> prev.angle]
  ELSE [angle |-> QAdd(prev.angle, TurnDeg(cfg.rpm, timeSeconds))]

applySpin(prev, cfg, timeSeconds) ==
  IF Inactive(cfg, timeSeconds) THEN [angle |-> prev.angle]
  ELSE LET deltaDeg == TurnDeg(cfg.rpm, timeSeconds)
           signed == IF IsStr(cfg.direction, "ccw") THEN QNeg(deltaDeg) ELSE deltaDeg
       IN  [angle |-> QAdd(prev.angle, signed)]

\* an orbit that circles around the previous position
applyOrbit_Relative(prev, cfg, timeSeconds, baseCenter) ==
  IF Inactive(cfg, timeSeconds) \/ QLe(cfg.radius, Num(0))
  THEN [position |-> [t |-> "object", x |-> prev.position.x, y |-> prev.position.y]]
  ELSE LET thetaDeg == TurnDeg(cfg.rpm, timeSeconds)
           dir == IF "direction" \in DOMAIN cfg
                  THEN Coalesce(cfg.direction, Str("cw")) ELSE Str("cw")
           theta == IF IsStr(dir, "ccw") THEN QNeg(thetaDeg) ELSE thetaDeg
       IN  [position |->
              [t |-> "object",
               x |-> QAdd(prev.position.x, QMul(CosDeg(theta), cfg.radius)),
               y |-> QAdd(prev.position.y, QMul(SinDeg(theta), cfg.radius))]]

applyOrbit(prev, cfg, timeSeconds, baseCenter) ==
  IF Inactive(cfg, timeSeconds) \/ QLe(cfg.radius, Num(0))
  THEN [position |-> [t |-> "object", x |-> prev.position.x, y |-> prev.position.y]]
  ELSE LET center == Coalesce(cfg.center, baseCenter)
           thetaDeg == TurnDeg(cfg.rpm, timeSeconds)
           dir == IF "direction" \in DOMAIN cfg
                  THEN Coalesce(cfg.direction, Str("cw")) ELSE Str("cw")
           theta == IF IsStr(dir, "ccw") THEN QNeg(thetaDeg) ELSE thetaDeg
       IN  [position |->
              [t |-> "object",
               x |-> QAdd(center.x, QMul(CosDeg(theta), cfg.radius)),
               y |-> QAdd(center.y, QMul(SinDeg(theta), cfg.radius))]]

\* a pulse that scales the x axis only
applyPulse_XOnly(prev, cfg, timeSeconds) ==
  IF Inactive(cfg, timeSeconds) \/ QLe(cfg.amplitude, Num(0))
  THEN [scale |-> [t |-> "object", x |-> prev.scale.x, y |-> prev.scale.y]]
  ELSE [scale |->
          [t |-> "object",
           x |-> QMul(prev.scale.x,
                      QAdd(Num(1), QMul(cfg.amplitude,
                                        SinDeg(TurnDeg(cfg.rpm, timeSeconds))))),
           y |-> prev.scale.y]]

applyPulse(prev, cfg, timeSeconds) ==
  IF Inactive(cfg, timeSeconds) \/ QLe(cfg.amplitude, Num(0))
  THEN [scale |-> [t |-> "object", x |-> prev.scale.x, y |-> prev.scale.y]]
  ELSE LET phase == TurnDeg(cfg.rpm, timeSeconds)
           sc == QAdd(Num(1), QMul(cfg.amplitude, SinDeg(phase)))
       IN  [scale |-> [t |-> "object",
                       x |-> QMul(prev.scale.x, sc),
                       y |-> QMul(prev.scale.y, sc)]]

\* a fade without the final clamp
applyFade_Unclamped(prev, cfg, timeSeconds) ==
  IF Inactive(cfg, timeSeconds) THEN [opacity |-> prev.opacity]
  ELSE [opacity |->
          QAdd(cfg.from,
               QMul(QSub(cfg.to, cfg.from),
                    QDiv(QAdd(SinDeg(TurnDeg(cfg.rpm, timeSeconds)), Num(1)), Num(2))))]

applyFade(prev, cfg, timeSeconds) ==
  IF Inactive(cfg, timeSeconds) THEN [opacity |-> prev.opacity]
  ELSE LET phase == TurnDeg(cfg.rpm, timeSeconds)
           t01 == QDiv(QAdd(SinDeg(phase), Num(1)), Num(2))
           value == QAdd(cfg.from, QMul(QSub(cfg.to, cfg.from), t01))
       IN  [opacity |-> QMax(Num(0), QMin(Num(1), value))]

----------------------------------------------------------------------------
(* LayerProducer and LayerPipeline *)

\* errors.map(e => `${e.path}: ${e.message}`).join("; ") and the same for warnings
IssueText(e) == e.path \o ": " \o e.message

RECURSIVE Join(_, _)
Join(strs, sep) ==
  IF Len(strs) = 0 THEN ""
  ELSE IF Len(strs) = 1 THEN strs[1]
  ELSE strs[1] \o sep \o Join(Tail(strs), sep)

IssueTexts(issues) == [i \in 1..Len(issues) |-> IssueText(issues[i])]

\* the reason of a "validation failed" error
Reason(res) ==
  LET joined == Join(IssueTexts(res.errors), "; ")
  IN  IF joined = "" THEN "invalid config" ELSE joined

\* the container copied into a LayerData
CopyContainer(c) == IF Truthy(c) THEN c ELSE Undef

\* number of leading layers whose asset reference resolves
RECURSIVE ResolvedPrefix(_, _, _)
ResolvedPrefix(layers, i, reg) ==
  IF i > Len(layers) \/ resolveAsset(layers[i].assetRef, reg).threw THEN 0
  ELSE 1 + ResolvedPrefix(layers, i + 1, reg)

\* the LayerData with a 1-based zIndex
LayerData_OneBased(norm, idx, basic, spinRes, orbitRes, pulseRes, fadeRes, isVisible) ==
  [id |-> norm.layerId,
   zIndex |-> idx + 1,
   asset |-> norm.assetRef,
   transform |->
     [position |-> orbitRes.position, scale |-> pulseRes.scale,
      angle |-> spinRes.angle, tilt |-> basic.tilt,
      anchor |-> basic.anchor, opacity |-> fadeRes.opacity],
   container |-> CopyContainer(norm.container),
   behaviors |-> norm.behaviors,
   events |-> norm.events,
   state |-> [isHovered |-> FALSE, isPressed |-> FALSE,
              isActive |-> FALSE, isVisible |-> isVisible]]

\* the LayerData both producers assemble from the four behavior results
LayerData(norm, idx, basic, spinRes, orbitRes, pulseRes, fadeRes, isVisible) ==
  [id |-> norm.layerId,
   zIndex |-> idx,
   asset |-> norm.assetRef,
   transform |->
     [position |-> orbitRes.position, scale |-> pulseRes.scale,
      angle |-> spinRes.angle, tilt |-> basic.tilt,
      anchor |-> basic.anchor, opacity |-> fadeRes.opacity],
   container |-> CopyContainer(norm.container),
   behaviors |-> norm.behaviors,
   events |-> norm.events,
   state |-> [isHovered |-> FALSE, isPressed |-> FALSE,
              isActive |-> FALSE, isVisible |-> isVisible]]

\* wrappers in which the spin result is written to the tilt as well
ProducerWrap_SpinTilts(norm, idx, basic, timeSeconds) ==
  LayerData(norm, idx,
    [basic EXCEPT !.tilt.x = applySpin([angle |-> basic.angle], norm.behaviors.spin,
                                       timeSeconds).angle],
    applySpin([angle |-> basic.angle], norm.behaviors.spin, timeSeconds),
    applyOrbit([position |-> basic.position], norm.behaviors.orbit, timeSeconds,
               basic.position),
    applyPulse([scale |-> basic.scale], norm.behaviors.pulse, timeSeconds),
    applyFade([opacity |-> basic.opacity], norm.behaviors.fade, timeSeconds),
    TRUE)

\* the wrappers of produceLayers on the basic transform (lines 619-660)
ProducerWrap(norm, idx, basic, timeSeconds) ==
  LayerData(norm, idx, basic,
    applySpin([angle |-> basic.angle], norm.behaviors.spin, timeSeconds),
    applyOrbit([position |-> basic.position], norm.behaviors.orbit, timeSeconds,
               basic.position),
    applyPulse([scale |-> basic.scale], norm.behaviors.pulse, timeSeconds),
    applyFade([opacity |-> basic.opacity], norm.behaviors.fade, timeSeconds),
    TRUE)

\* the body of layers.map in produceLayers, past the resolveAsset call
ProducerLayer(norm, idx, timeSeconds, D) ==
  ProducerWrap(norm, idx, applyBasicTransform(norm, D), timeSeconds)

\* layers.map that swallows the resolver's error and keeps the layers before it
ProduceMapped_Skip(res, n, timeSeconds, reg, D) ==
  [threw |-> FALSE, resolved |-> n,
   value |->
     [layers |-> [i \in 1..n |->
                    ProducerLayer(res.normalized.layers[i], i - 1, timeSeconds, D)],
      warnings |-> IssueTexts(res.warnings)]]

\* layers.map of produceLayers: n is the number of leading layers that resolve
ProduceMapped(res, n, timeSeconds, reg, D) ==
  IF n < Len(res.normalized.layers)
  THEN [threw |-> TRUE, resolved |-> n,
        message |-> resolveAsset(res.normalized.layers[n + 1].assetRef, reg).message]
  ELSE [threw |-> FALSE, resolved |-> n,
        value |->
          [layers |-> [i \in 1..Len(res.normalized.layers) |->
                         ProducerLayer(res.normalized.layers[i], i - 1, timeSeconds, D)],
           warnings |-> IssueTexts(res.warnings)]]

\* produceLayers past the validateLibraryConfig call, whose result is res
ProduceFrom(res, timeSeconds, reg, D) ==
  IF ~res.ok
  THEN [threw |-> TRUE, resolved |-> 0,
        message |-> "produceLayers: validation failed: " \o Reason(res)]
  ELSE ProduceMapped(res, ResolvedPrefix(res.normalized.layers, 1, reg),
                     timeSeconds, reg, D)

\* produceLayers(input, ctx) with ctx.time = timeSeconds and ctx.registry = reg.
\* "resolved" counts the resolveAsset calls that returned during the call.
produceLayers(input, timeSeconds, reg, D) ==
  ProduceFrom(validateLibraryConfig(input, D), timeSeconds, reg, D)

\* normalizeInput past the validateLibraryConfig call, whose result is res
NormalizedFrom(res) ==
  IF ~res.ok
  THEN Thrown("LayerPipeline: validation failed: " \o Reason(res))
  ELSE Returned([stage |-> res.normalized.stage,
                 layers |-> res.normalized.layers,
                 warnings |-> IssueTexts(res.warnings)])

\* LayerPipeline's helper: validate and normalize, or throw
normalizeInput(input, D) == NormalizedFrom(validateLibraryConfig(input, D))

\* a LayerData that is visible whatever its opacity
BuiltFrom_AlwaysVisible(norm, idx, basic, spinRes, orbitRes, pulseRes, fadeRes) ==
  LayerData(norm, idx, basic, spinRes, orbitRes, pulseRes, fadeRes, TRUE)

\* the final transform and LayerData of buildLayerData, given the fade result
BuiltFrom(norm, idx, basic, spinRes, orbitRes, pulseRes, fadeRes) ==
  LayerData(norm, idx, basic, spinRes, orbitRes, pulseRes, fadeRes,
            QLt(Num(0), fadeRes.opacity))

\* the wrappers of buildLayerData without the pulse step
BuildWrap_NoPulse(norm, idx, basic, timeSeconds, options) ==
  BuiltFrom(norm, idx, basic,
    IF options.doSpin
    THEN applySpin([angle |-> basic.angle], norm.behaviors.spin, timeSeconds)
    ELSE [angle |-> basic.angle],
    IF options.doOrbit
    THEN applyOrbit([position |-> basic.position], norm.behaviors.orbit, timeSeconds,
                    basic.position)
    ELSE [position |-> basic.position],
    [scale |-> basic.scale],
    IF options.doFade
    THEN applyFade([opacity |-> basic.opacity], norm.behaviors.fade, timeSeconds)
    ELSE [opacity |-> basic.opacity])

\* the wrappers of buildLayerData on the basic transform (lines 59-89)
BuildWrap(norm, idx, basic, timeSeconds, options) ==
  BuiltFrom(norm, idx, basic,
    IF options.doSpin
    THEN applySpin([angle |-> basic.angle], norm.behaviors.spin, timeSeconds)
    ELSE [angle |-> basic.angle],
    IF options.doOrbit
    THEN applyOrbit([position |-> basic.position], norm.behaviors.orbit, timeSeconds,
                    basic.position)
    ELSE [position |-> basic.position],
    IF options.doPulse
    THEN applyPulse([scale |-> basic.scale], norm.behaviors.pulse, timeSeconds)
    ELSE [scale |-> basic.scale],
    IF options.doFade
    THEN applyFade([opacity |-> basic.opacity], norm.behaviors.fade, timeSeconds)
    ELSE [opacity |-> basic.opacity])

buildLayerData(norm, idx, timeSeconds, options, D) ==
  BuildWrap(norm, idx, applyBasicTransform(norm, D), timeSeconds, options)

\* layers.map(buildLayerData) on what normalizeInput returned or threw
PipelineFrom(ni, options, timeSeconds, D) ==
  IF ni.threw THEN [threw |-> TRUE, resolved |-> 0, message |-> ni.message]
  ELSE [threw |-> FALSE, resolved |-> 0,
        value |->
          [layers |-> [i \in 1..Len(ni.value.layers) |->
                         buildLayerData(ni.value.layers[i], i - 1, timeSeconds,
                                        options, D)],
           warnings |-> ni.value.warnings]]

\* the function every pipeline variant returns, for given options
RunPipeline(options, input, timeSeconds, D) ==
  PipelineFrom(normalizeInput(input, D), options, timeSeconds, D)

\* a lookup that sees only the first wrapper of the array
Has_First(wrappersArr, name) == Len(wrappersArr) > 0 /\ wrappersArr[1] = name

\* new Set(wrappers).has(name)
Has(wrappersArr, name) == \E i \in 1..Len(wrappersArr) : wrappersArr[i] = name

\* compose(wrappers)(input, ctx)
compose(wrappersArr, input, timeSeconds, D) ==
  RunPipeline([doSpin |-> Has(wrappersArr, "spin"), doOrbit |-> Has(wrappersArr, "orbit"),
               doPulse |-> Has(wrappersArr, "pulse"), doFade |-> Has(wrappersArr, "fade")],
              input, timeSeconds, D)

\* produceBasic, produceBasicSpin, produceBasicOrbit, produceBasicPulse, produceBasicFade
produceBasicVariant(name, input, timeSeconds, D) ==
  RunPipeline([doSpin |-> name = "produceBasicSpin", doOrbit |-> name = "produceBasicOrbit",
               doPulse |-> name = "produceBasicPulse", doFade |-> name = "produceBasicFade"],
              input, timeSeconds, D)

----------------------------------------------------------------------------
(* The caller's data: raw configs, registries and times *)

MaxLayers == 2
MaxMutations == 1

\* a raw layer with only its identity and asset fields set
Layer(id, imagePath, registryKey) ==
  [t |-> "object", layerId |-> id, imagePath |-> imagePath, registryKey |-> registryKey,
   position |-> Undef, scale |-> Undef, angle |-> Undef, tilt |-> Undef,
   anchor |-> Undef, opacity |-> Undef, behaviors |-> Undef, events |-> Undef,
   layerWidth |-> Undef, layerHeight |-> Undef, fitMode |-> Undef, alignment |-> Undef]

Obj(fields) == [t |-> "object"] @@ fields

AllBehaviors ==
  Obj([spin |-> Obj([enabled |-> Bool(TRUE), rpm |-> Num(15), direction |-> Str("ccw")]),
       orbit |-> Obj([enabled |-> Bool(TRUE), rpm |-> Num(15), radius |-> Num(10)]),
       pulse |-> Obj([enabled |-> Bool(TRUE), amplitude |-> Rat(1, 2), rpm |-> Num(15)]),
       fade |-> Obj([enabled |-> Bool(TRUE), from |-> Num(1), to |-> Num(0),
                     rpm |-> Num(15)])])

PressSpin == Obj([action |-> Str("spin"), set |-> Obj([rpm |-> Num(60)])])

\* the layers the pipeline calls are run on
PlainLayer == Layer(Str("a"), Str("/a.png"), Undef)

AnimatedLayer ==
  [Layer(Str("b"), Undef, Str("k1")) EXCEPT
     !.position = Vec(3, 4), !.scale = Num(2), !.angle = Num(45),
     !.opacity = Rat(4, 5), !.behaviors = AllBehaviors,
     !.events = Obj([onPress |-> Arr(<<PressSpin>>)]),
     !.layerWidth = Num(200), !.layerHeight = Num(100), !.fitMode = Str("cover"),
     !.alignment = Str("top-left")]

PipelineLayers == {PlainLayer, AnimatedLayer}

\* all sequences over S of length 0..n
SeqsUpTo(S, n) == UNION {[1..k -> S] : k \in 0..n}

Config(stage, layers) == Obj([stage |-> stage, layers |-> layers])

OddStage == Obj([width |-> Num(400), height |-> Num(-3), origin |-> Str("middle")])

\* the layers validateLibraryConfig alone is run on: every way the identity
\* and asset checks can fail, and layers that record warnings or later errors
OutOfRangeLayer ==
  [Layer(Str("b"), Str("/b.png"), Undef) EXCEPT
     !.opacity = Num(2), !.anchor = Vec(2, 0),
     !.behaviors = Obj([spin |-> Obj([enabled |-> Bool(TRUE), rpm |-> Num(-15)]),
                        fade |-> Obj([enabled |-> Str("yes"), from |-> Num(2),
                                      to |-> Num(-1), rpm |-> Str("fast")])])]

UnknownActionLayer ==
  [Layer(Str("b"), Str("/b.png"), Undef) EXCEPT
     !.events = Obj([onPress |-> Arr(<<Obj([action |-> Str("explode")]), PressSpin>>),
                     onHover |-> Str("spin")])]

BadSetLayer ==
  [Layer(Str("c"), Str("/c.png"), Undef) EXCEPT
     !.events = Obj([onRelease |-> Arr(<<Obj([action |-> Str("fade"),
                                              set |-> Obj([from |-> Str("0")])])>>)])]

\* a layer with two onPress entries, a null onHover and an empty onRelease
EventfulLayer ==
  [Layer(Str("e"), Str("/e.png"), Undef) EXCEPT
     !.events = Obj([onPress |-> Arr(<<PressSpin,
                                      Obj([action |-> Str("fade"),
                                           set |-> Obj([from |-> Num(0),
                                                        enabled |-> Bool(TRUE)])])>>),
                     onHover |-> Null,
                     onRelease |-> Arr(<<>>)])]

PipelineConfigs ==
  {Config(Undef, Arr(ls)) : ls \in SeqsUpTo(PipelineLayers, MaxLayers)}
    \cup {Config(OddStage, Undef)}
    \cup {Config(Undef, Arr(<<l>>)) : l \in {EventfulLayer, UnknownActionLayer, BadSetLayer}}

NoBoxLayer == [Layer(Str("c"), Str("/c.png"), Undef) EXCEPT !.fitMode = Str("contain")]

BadBoxLayer ==
  [Layer(Str("a"), Undef, Str("k1")) EXCEPT
     !.fitMode = Str("fill"), !.layerWidth = Num(-5), !.layerHeight = Num(10)]

ValidatorLayers ==
  {PlainLayer, AnimatedLayer,
   Layer(Undef, Str("/a.png"), Undef),
   Layer(Str(""), Str("/a.png"), Undef),
   Layer(Num(5), Str("/a.png"), Str("k1")),
   Null,
   Layer(Str("a"), Str("/a.png"), Str("k1")),
   Layer(Str("b"), Undef, Undef),
   Layer(Str("b"), Str(""), Str("")),
   Layer(Str("a"), Str(""), Str("k1")),
   OutOfRangeLayer, UnknownActionLayer, BadSetLayer, NoBoxLayer, BadBoxLayer}

\* raw stages: absent or partial fields, sizes that are not finite or not
\* positive, origins of every kind, and stages that are not objects
Stages ==
  {Obj([width |-> w, height |-> h, origin |-> o]) :
     w \in {Undef, NaN, Num(0), Num(800), Infinity},
     h \in {Undef, Num(-3), Num(600)},
     o \in {Undef, Null, Str("center"), Str("top-left"), Str("middle")}}
    \cup {OddStage, Obj([width |-> NaN]), Null, Str("wide")}

\* raw behaviors with the given rpm, radius and amplitude values
BehaviorsWith(spinRpm, orbitRpm, radius, pulseRpm, amplitude, fadeRpm) ==
  Obj([spin |-> Obj([enabled |-> Bool(TRUE), rpm |-> spinRpm]),
       orbit |-> Obj([enabled |-> Bool(TRUE), rpm |-> orbitRpm, radius |-> radius]),
       pulse |-> Obj([enabled |-> Bool(TRUE), amplitude |-> amplitude, rpm |-> pulseRpm]),
       fade |-> Obj([enabled |-> Bool(TRUE), from |-> Num(0), to |-> Num(1),
                     rpm |-> fadeRpm])])

RangeBehaviors ==
  {Undef,
   BehaviorsWith(Num(15), Num(15), Num(10), Num(15), Rat(1, 2), Num(30)),
   BehaviorsWith(Num(-15), Num(15), Num(10), Num(15), Rat(1, 2), Num(30)),
   BehaviorsWith(Num(15), Num(-15), Num(10), Num(15), Rat(1, 2), Num(30)),
   BehaviorsWith(Num(15), Num(15), Num(-10), Num(15), Rat(1, 2), Num(30)),
   BehaviorsWith(Num(15), Num(15), Num(10), Num(-15), Rat(1, 2), Num(30)),
   BehaviorsWith(Num(15), Num(15), Num(10), Num(15), Rat(-1, 2), Num(30)),
   BehaviorsWith(Num(15), Num(15), Num(10), Num(15), Rat(1, 2), Num(-30)),
   BehaviorsWith(Num(-15), Num(-15), Num(-10), Num(-15), Rat(-1, 2), Num(-30))}

\* otherwise valid layers whose opacity, anchor and behaviors run over values
\* inside, on the edge of and outside their ranges
RangeLayers ==
  {[Layer(Str("r"), Str("/r.png"), Undef) EXCEPT
      !.opacity = o, !.anchor = a, !.behaviors = b] :
     o \in {Undef, Rat(-1, 2), Num(0), Num(1), Rat(3, 2)},
     a \in {Undef, Vec(0, 1), Vec(-1, 0), [t |-> "object", x |-> Rat(1, 2), y |-> Num(2)]},
     b \in RangeBehaviors}

\* otherwise valid layers whose fade endpoints run over absent, non-finite,
\* inside, edge and outside values
FadeEnds == {Undef, NaN, Rat(-1, 2), Num(0), Rat(1, 4), Num(1), Rat(3, 2)}

FadeLayers ==
  {[Layer(Str("f"), Str("/f.png"), Undef) EXCEPT
      !.behaviors = Obj([fade |-> Obj([enabled |-> Bool(TRUE), from |-> f, to |-> g,
                                       rpm |-> Num(15)])])] :
     f \in FadeEnds, g \in FadeEnds}

\* layers that give every combination of container fields, good and bad
BoxLayers ==
  {[Layer(Str("x"), Str("/x.png"), Undef) EXCEPT
      !.layerWidth = w, !.layerHeight = h, !.fitMode = f, !.alignment = al] :
     w \in {Undef, Num(0), Num(200), NaN},
     h \in {Undef, Num(100), Num(-5), Infinity},
     f \in {Undef, Str("cover"), Str("fill")},
     al \in {Undef, Str("top-left"), Str("middle")}}

ValidatorConfigs ==
  {Config(Undef, Arr(ls)) : ls \in SeqsUpTo(ValidatorLayers, MaxLayers)}
    \cup {Config(st, Arr(<<l>>)) : st \in Stages, l \in {PlainLayer, NoBoxLayer}}
    \cup {Config(OddStage, Undef), Config(Undef, Str("none"))}
    \cup {Config(Undef, Arr(<<l>>)) : l \in RangeLayers \cup BoxLayers \cup FadeLayers}

Meta(src, width, height, anchor) ==
  [src |-> src, width |-> Num(width), height |-> Num(height),
   anchor |-> anchor, dpi |-> Undef]

MetaK1 == Meta("/registry/one.png", 256, 128, [t |-> "object", x |-> Rat(1, 2), y |-> Rat(1, 2)])

Registries == {<<>>, [k \in {"k1"} |-> MetaK1]}

Times == {Num(0), Num(1)}

\* the arrays handed to compose()
WrapperArrays ==
  {<<>>, <<"spin", "fade">>, <<"spin", "spin", "fade">>, <<"fade", "spin">>,
   <<"spin", "orbit", "pulse", "fade">>}

BasicVariants ==
  {"produceBasic", "produceBasicSpin", "produceBasicOrbit", "produceBasicPulse",
   "produceBasicFade"}

\* the references handed to resolveAsset directly
AssetRefs ==
  {[type |-> "path", path |-> "/a.png"], [type |-> "registry", key |-> "k1"],
   [type |-> "unknown", data |-> "test"]}

----------------------------------------------------------------------------
(* What a call leaves in the registry.  resolveAsset only reads the map     *)
(* (registry.get); the producer calls it once per layer until one throws.   *)

\* a resolver that memoizes the meta it builds for a path under that path
RegistryAfterResolve_Memo(ref, reg) ==
  IF ref.type = "path"
  THEN [k \in DOMAIN reg \cup {ref.path} |->
          IF k \in DOMAIN reg THEN reg[k]
          ELSE [src |-> ref.path, width |-> NaN, height |-> NaN,
                anchor |-> Undef, dpi |-> Undef]]
  ELSE reg

RegistryAfterResolve(ref, reg) == reg

RECURSIVE RegistryAfterLayers(_, _, _)
RegistryAfterLayers(layers, i, reg) ==
  IF i > Len(layers) \/ resolveAsset(layers[i].assetRef, reg).threw THEN reg
  ELSE RegistryAfterLayers(layers, i + 1, RegistryAfterResolve(layers[i].assetRef, reg))

RegistryAfterMap(res, reg) ==
  IF ~res.ok THEN reg ELSE RegistryAfterLayers(res.normalized.layers, 1, reg)

RegistryAfterProduce(input, reg, D) ==
  RegistryAfterMap(validateLibraryConfig(input, D), reg)

----------------------------------------------------------------------------
(* The calls *)

Init ==
  /\ defaults = ModuleDefaults
  /\ registry \in Registries
  /\ time \in Times
  /\ config \in PipelineConfigs
  /\ lastRef = Undef
  /\ op = "none"
  /\ wrappers = <<>>
  /\ pc = "idle"
  /\ result = Undef
  /\ regBefore = registry
  /\ mutations = 0
  /\ behavior = Undef
  /\ elapsed = Num(0)
  /\ mapping = Undef
  /\ engine = Undef

\* the bookkeeping every call shares: r is what the call returned or threw
Called(name, r) ==
  /\ op' = name
  /\ result' = r
  /\ pc' = IF "threw" \in DOMAIN r /\ r.threw THEN "thrown" ELSE "returned"
  /\ regBefore' = registry
  /\ UNCHANGED <<defaults, time, config, mutations, behavior, elapsed, mapping, engine>>

CallValidate ==
  /\ Called("validateLibraryConfig", validateLibraryConfig(config, defaults))
  /\ lastRef' = Undef
  /\ wrappers' = <<>>
  /\ UNCHANGED registry

CallProduceLayers ==
  /\ Called("produceLayers", produceLayers(config, time, registry, defaults))
  /\ registry' = RegistryAfterProduce(config, registry, defaults)
  /\ lastRef' = Undef
  /\ wrappers' = <<>>

CallCompose ==
  \E w \in WrapperArrays :
    /\ Called("compose", compose(w, config, time, defaults))
    /\ wrappers' = w
    /\ lastRef' = Undef
    /\ UNCHANGED registry

CallProduceBasic ==
  \E name \in BasicVariants :
    /\ Called(name, produceBasicVariant(name, config, time, defaults))
    /\ lastRef' = Undef
    /\ wrappers' = <<>>
    /\ UNCHANGED registry

CallResolveAsset ==
  \E ref \in AssetRefs :
    /\ Called("resolveAsset", resolveAsset(ref, registry))
    /\ registry' = RegistryAfterResolve(ref, registry)
    /\ lastRef' = ref
    /\ wrappers' = <<>>

\* The caller writes x of a Vec2 of a layer of the normalized config it was
\* returned: normalized.layers[i].position.x = 7 (or scale, tilt, anchor).
\* A field that holds a module-level object writes to that object; a position,
\* tilt or anchor the raw layer gave is the raw layer's own object (lines
\* 247-251), so the write shows in the caller's config; a given scale was copied.
MutateNormalized ==
  /\ op = "validateLibraryConfig"
  /\ pc \in {"returned", "mutated"}
  /\ result.ok
  /\ mutations < MaxMutations
  /\ \E i \in 1..Len(result.normalized.layers),
        f \in {"position", "scale", "tilt", "anchor"} :
       LET held == result.normalized.layers[i][f]
       IN  IF held.t = "ref"
           THEN /\ defaults' = [defaults EXCEPT ![held.obj].x = Num(7)]
                /\ UNCHANGED <<result, config>>
           ELSE /\ result' = [result EXCEPT !.normalized.layers[i][f].x = Num(7)]
                /\ config' = IF f = "scale" THEN config
                             ELSE [config EXCEPT !.layers.items[i][f].x = Num(7)]
                /\ UNCHANGED defaults
  /\ pc' = "mutated"
  /\ mutations' = mutations + 1
  /\ UNCHANGED <<registry, time, lastRef, op, wrappers, regBefore, behavior, elapsed,
                 mapping, engine>>

\* The caller writes to the AssetMeta resolveAsset returned: result.width = 999,
\* result.anchor = {x: 0, y: 0}, or result.anchor.x = 0.
MutateAssetMeta ==
  /\ op = "resolveAsset"
  /\ pc \in {"returned", "mutated"}
  /\ mutations < MaxMutations
  /\ \E how \in {"width", "anchor", "anchor.x"} :
       CASE how = "width" ->
              /\ result' = [result EXCEPT !.value.width = Num(999)]
              /\ UNCHANGED registry
         [] how = "anchor" ->
              /\ result' = [result EXCEPT !.value.anchor = Vec(0, 0)]
              /\ UNCHANGED registry
         [] how = "anchor.x" ->
              /\ ~IsUndefined(result.value.anchor)
              /\ IF result.value.anchor.t = "ref"
                 THEN /\ registry' =
                           [registry EXCEPT ![result.value.anchor.key].anchor.x = Num(0)]
                      /\ UNCHANGED result
                 ELSE /\ result' = [result EXCEPT !.value.anchor.x = Num(0)]
                      /\ UNCHANGED registry
  /\ pc' = "mutated"
  /\ mutations' = mutations + 1
  /\ UNCHANGED <<defaults, time, config, lastRef, op, wrappers, regBefore, behavior,
                 elapsed, mapping, engine>>

Next ==
  \/ CallValidate
  \/ CallProduceLayers
  \/ CallCompose
  \/ CallProduceBasic
  \/ CallResolveAsset
  \/ MutateNormalized
  \/ MutateAssetMeta

Spec == Init /\ [][Next]_vars

\* validateLibraryConfig taken alone, as the function of its input it is in
\* a freshly loaded module: the input is drawn at the start, the step applies it
InitValidate ==
  /\ defaults = ModuleDefaults
  /\ registry = <<>>
  /\ time = Num(0)
  /\ config \in ValidatorConfigs
  /\ lastRef = Undef
  /\ op = "none"
  /\ wrappers = <<>>
  /\ pc = "idle"
  /\ result = Undef
  /\ regBefore = registry
  /\ mutations = 0
  /\ behavior = Undef
  /\ elapsed = Num(0)
  /\ mapping = Undef
  /\ engine = Undef

NextValidate == CallValidate

SpecValidate == InitValidate /\ [][NextValidate]_vars

----------------------------------------------------------------------------
(* The four behavior functions taken alone, on inputs of their declared     *)
(* types; rpm and time keep every phase on a whole quarter turn.            *)

MaxElapsed == 3

Enabled == {Bool(TRUE), Bool(FALSE)}
TurnRpms == {Num(-15), Num(0), Num(15), Num(30)}

SpinCalls ==
  {[kind |-> "spin", prev |-> [angle |-> a],
    cfg |-> [enabled |-> e, rpm |-> r, direction |-> Str(d)]] :
     a \in {Num(0), Num(45)}, e \in Enabled,
     r \in TurnRpms \cup {Rat(5, 2)}, d \in {"cw", "ccw"}}

OrbitShapes ==
  {[enabled |-> e, rpm |-> r, radius |-> rad, center |-> c] :
     e \in Enabled, r \in TurnRpms, rad \in {Num(-1), Num(0), Num(10)},
     c \in {Undef, Vec(100, 50)}}

\* an OrbitConfig, and the same object carrying a direction property as well
OrbitConfigs ==
  OrbitShapes
    \cup {[direction |-> Str(d)] @@ o : d \in {"cw", "ccw"}, o \in OrbitShapes}

OrbitCalls ==
  {[kind |-> "orbit", prev |-> [position |-> p], cfg |-> c, baseCenter |-> b] :
     p \in {Vec(0, 0), Vec(3, 4)}, c \in OrbitConfigs, b \in {Vec(0, 0), Vec(3, 4)}}

PulseCalls ==
  {[kind |-> "pulse", prev |-> [scale |-> sc],
    cfg |-> [enabled |-> e, amplitude |-> a, rpm |-> r]] :
     sc \in {Vec(1, 1), Vec(2, 3)}, e \in Enabled,
     a \in {Rat(-1, 2), Num(0), Rat(1, 2), Num(2)}, r \in TurnRpms}

FadeLevels == {Rat(-1, 2), Num(0), Rat(1, 4), Num(1), Rat(3, 2)}

FadeCalls ==
  {[kind |-> "fade", prev |-> [opacity |-> o],
    cfg |-> [enabled |-> e, from |-> f, to |-> g, rpm |-> r]] :
     o \in {Rat(1, 4), Num(1)}, e \in Enabled, f \in FadeLevels, g \in FadeLevels,
     r \in TurnRpms}

BehaviorCalls == SpinCalls \cup OrbitCalls \cup PulseCalls \cup FadeCalls

FiniteTimes == {Num(k) : k \in 0..MaxElapsed}
BehaviorTimes == FiniteTimes \cup {NaN, Infinity}

InitBehaviors ==
  /\ defaults = ModuleDefaults
  /\ registry = <<>>
  /\ time = Num(0)
  /\ config = Undef
  /\ lastRef = Undef
  /\ op = "none"
  /\ wrappers = <<>>
  /\ pc = "idle"
  /\ result = Undef
  /\ regBefore = registry
  /\ mutations = 0
  /\ behavior \in BehaviorCalls
  /\ elapsed = Num(0)
  /\ mapping = Undef
  /\ engine = Undef

\* the bookkeeping of a behavior call at time t that returned r
Applied(name, t, r, total) ==
  /\ op' = name
  /\ time' = t
  /\ result' = r
  /\ pc' = "returned"
  /\ elapsed' = total
  /\ UNCHANGED <<defaults, registry, config, lastRef, wrappers, regBefore, mutations,
                 behavior, mapping, engine>>

CallApplySpin ==
  /\ behavior.kind = "spin"
  /\ \E t \in BehaviorTimes :
       Applied("applySpin", t, applySpin(behavior.prev, behavior.cfg, t), t)

\* applySpin on the angle the spin call before it returned
CallApplySpinAgain ==
  /\ op = "applySpin"
  /\ IsFinite(elapsed)
  /\ \E t \in FiniteTimes :
       /\ QLe(QAdd(elapsed, t), Num(MaxElapsed))
       /\ Applied("applySpin", t, applySpin(result, behavior.cfg, t), QAdd(elapsed, t))

CallApplyOrbit ==
  /\ behavior.kind = "orbit"
  /\ \E t \in BehaviorTimes :
       Applied("applyOrbit", t,
               applyOrbit(behavior.prev, behavior.cfg, t, behavior.baseCenter), t)

CallApplyPulse ==
  /\ behavior.kind = "pulse"
  /\ \E t \in BehaviorTimes :
       Applied("applyPulse", t, applyPulse(behavior.prev, behavior.cfg, t), t)

CallApplyFade ==
  /\ behavior.kind = "fade"
  /\ \E t \in BehaviorTimes :
       Applied("applyFade", t, applyFade(behavior.prev, behavior.cfg, t), t)

NextBehaviors ==
  \/ CallApplySpin
  \/ CallApplySpinAgain
  \/ CallApplyOrbit
  \/ CallApplyPulse
  \/ CallApplyFade

SpecBehaviors == InitBehaviors /\ [][NextBehaviors]_vars

----------------------------------------------------------------------------
(* LayerMappingImage: mapImageIntoContainer *)

\* Number.isFinite(v) ? v : 0
FiniteOrZero(v) == IF IsFinite(v) THEN v ELSE Num(0)

Point(x, y) == [t |-> "object", x |-> x, y |-> y]

ImageMappingResult(displayWidth, displayHeight, offset, anchor) ==
  [displayWidth |-> displayWidth, displayHeight |-> displayHeight,
   offset |-> offset, anchor |-> anchor]

\* the switch of alignmentOffset on the half extents hx = cw / 2, hy = ch / 2
AlignedAt(alignment, hx, hy) ==
  CASE IsStr(alignment, "center") -> Point(Num(0), Num(0))
    [] IsStr(alignment, "top") -> Point(Num(0), QNeg(hy))
    [] IsStr(alignment, "bottom") -> Point(Num(0), hy)
    [] IsStr(alignment, "left") -> Point(QNeg(hx), Num(0))
    [] IsStr(alignment, "right") -> Point(hx, Num(0))
    [] IsStr(alignment, "top-left") -> Point(QNeg(hx), QNeg(hy))
    [] IsStr(alignment, "top-right") -> Point(hx, QNeg(hy))
    [] IsStr(alignment, "bottom-left") -> Point(QNeg(hx), hy)
    [] IsStr(alignment, "bottom-right") -> Point(hx, hy)
    [] OTHER -> Point(Num(0), Num(0))

alignmentOffset(alignment, cw, ch) ==
  AlignedAt(alignment, QDiv(cw, Num(2)), QDiv(ch, Num(2)))

\* a scale that takes the larger factor for contain and the smaller for cover
FitScale_Swapped(fitMode, sx, sy) ==
  IF IsStr(fitMode, "contain") THEN QMax(sx, sy) ELSE QMin(sx, sy)

\* s = fitMode === "contain" ? Math.min(sx, sy) : Math.max(sx, sy)
FitScale(fitMode, sx, sy) ==
  IF IsStr(fitMode, "contain") THEN QMin(sx, sy) ELSE QMax(sx, sy)

\* the display size for valid sizes: stretch, or the asset scaled by s
DisplaySize(fitMode, aw, ah, cw, ch, s) ==
  IF IsStr(fitMode, "stretch")
  THEN [displayWidth |-> cw, displayHeight |-> ch]
  ELSE [displayWidth |-> QMul(aw, s), displayHeight |-> QMul(ah, s)]

\* the function past its guards, for finite positive aw, ah, cw, ch
MapValid(fitMode, alignment, aw, ah, cw, ch, finalAnchor) ==
  ImageMappingResult(
    DisplaySize(fitMode, aw, ah, cw, ch,
                FitScale(fitMode, QDiv(cw, aw), QDiv(ch, ah))).displayWidth,
    DisplaySize(fitMode, aw, ah, cw, ch,
                FitScale(fitMode, QDiv(cw, aw), QDiv(ch, ah))).displayHeight,
    alignmentOffset(alignment, cw, ch), finalAnchor)

\* !Number.isFinite(v) || v <= 0
Unusable(v) == ~IsFinite(v) \/ QLe(v, Num(0))

\* the function given finalAnchor = asset.anchor ?? anchor
MapWithAnchor(asset, container, finalAnchor) ==
  IF \/ ~Truthy(container)
     \/ IsUndefined(Get(container, "width")) /\ IsUndefined(Get(container, "height"))
  THEN ImageMappingResult(FiniteOrZero(asset.width), FiniteOrZero(asset.height),
                          Point(Num(0), Num(0)), finalAnchor)
  ELSE IF Unusable(container.width) \/ Unusable(container.height)
  THEN ImageMappingResult(Num(0), Num(0), Point(Num(0), Num(0)), finalAnchor)
  ELSE IF Unusable(asset.width) \/ Unusable(asset.height)
  THEN ImageMappingResult(Num(0), Num(0), Point(Num(0), Num(0)), finalAnchor)
  ELSE MapValid(container.fitMode, container.alignment, asset.width, asset.height,
                container.width, container.height, finalAnchor)

mapImageIntoContainer(asset, container, anchor) ==
  MapWithAnchor(asset, container, Coalesce(asset.anchor, anchor))

----------------------------------------------------------------------------
(* LayerMappingScreen: createScreenMapping and defaultPlacement *)

\* half = { x: width / 2, y: height / 2 }
Half(stage) == Point(QDiv(stage.width, Num(2)), QDiv(stage.height, Num(2)))

toCenter(stage, p) ==
  IF stage.origin = Str("center") THEN Point(p.x, p.y)
  ELSE Point(QSub(p.x, Half(stage).x), QSub(p.y, Half(stage).y))

\* a toTopLeft that moves the point by the full extent
toTopLeft_FullExtent(stage, p) ==
  IF stage.origin = Str("top-left") THEN Point(p.x, p.y)
  ELSE Point(QAdd(p.x, stage.width), QAdd(p.y, stage.height))

toTopLeft(stage, p) ==
  IF stage.origin = Str("top-left") THEN Point(p.x, p.y)
  ELSE Point(QAdd(p.x, Half(stage).x), QAdd(p.y, Half(stage).y))

center(stage) ==
  IF stage.origin = Str("center") THEN Point(Num(0), Num(0)) ELSE Half(stage)

defaultPlacement(stage) ==
  IF stage.origin = Str("center") THEN Point(Num(0), Num(0))
  ELSE Point(QDiv(stage.width, Num(2)), QDiv(stage.height, Num(2)))

----------------------------------------------------------------------------
(* The mapping functions taken alone: the arguments are drawn at the start, *)
(* each step is one call.  Screen conversions chain: a conversion takes the *)
(* point the conversion before it returned.                                 *)

MaxTrail == 2

Asset(width, height, anchor) ==
  [src |-> "/test.png", width |-> width, height |-> height, anchor |-> anchor]

Assets ==
  {Asset(w, h, a) :
     w \in {NaN, Infinity, Num(-100), Num(0), Num(100), Num(200)},
     h \in {NaN, Num(0), Num(50), Num(100)},
     a \in {Undef, Point(Rat(1, 5), Rat(4, 5))}}

Containers ==
  {Undef}
    \cup {Obj([width |-> w, height |-> h, fitMode |-> Str(f), alignment |-> Str(al)]) :
            w \in {Undef, NaN, Num(0), Num(-10), Num(100), Num(300)},
            h \in {Undef, Infinity, Num(100), Num(150)},
            f \in {"stretch", "contain", "cover"},
            al \in {"center", "top-left", "bottom-right", "right"}}

ImageCalls ==
  {[kind |-> "image", asset |-> a, container |-> c, anchor |-> Point(Rat(1, 2), Rat(1, 2))] :
     a \in Assets, c \in Containers}

Origins == {Str("center"), Str("top-left")}

Stage(width, height, origin) == [width |-> width, height |-> height, origin |-> origin]

\* stage sizes, even and odd, and points inside and outside the stage
ScreenCalls ==
  {[kind |-> "screen", width |-> Num(w), height |-> Num(h),
    point |-> Point(x, y), trail |-> <<>>] :
     w \in {400, 3}, h \in {300, 1},
     x \in {Num(50), Num(0), Rat(-1, 3)}, y \in {Num(-75), Rat(5, 2)}}

InitMapping ==
  /\ defaults = ModuleDefaults
  /\ registry = <<>>
  /\ time = Num(0)
  /\ config = Undef
  /\ lastRef = Undef
  /\ op = "none"
  /\ wrappers = <<>>
  /\ pc = "idle"
  /\ result = Undef
  /\ regBefore = registry
  /\ mutations = 0
  /\ behavior = Undef
  /\ elapsed = Num(0)
  /\ mapping \in ImageCalls \cup ScreenCalls
  /\ engine = Undef

\* the bookkeeping of a mapping call that returned r
Mapped(name, r, m) ==
  /\ op' = name
  /\ result' = r
  /\ pc' = "returned"
  /\ mapping' = m
  /\ UNCHANGED <<defaults, registry, time, config, lastRef, wrappers, regBefore,
                 mutations, behavior, elapsed, engine>>

CallMapImage ==
  /\ mapping.kind = "image"
  /\ Mapped("mapImageIntoContainer",
            mapImageIntoContainer(mapping.asset, mapping.container, mapping.anchor),
            mapping)

\* the point the next conversion is given
Current == IF mapping.trail = <<>> THEN mapping.point ELSE result

Trailed(fn, origin) ==
  [mapping EXCEPT !.trail = Append(@, [fn |-> fn, origin |-> origin])]

CallToCenter ==
  /\ mapping.kind = "screen"
  /\ op \in {"none", "toCenter", "toTopLeft"}
  /\ Len(mapping.trail) < MaxTrail
  /\ \E o \in Origins :
       Mapped("toCenter", toCenter(Stage(mapping.width, mapping.height, o), Current),
              Trailed("toCenter", o))

CallToTopLeft ==
  /\ mapping.kind = "screen"
  /\ op \in {"none", "toCenter", "toTopLeft"}
  /\ Len(mapping.trail) < MaxTrail
  /\ \E o \in Origins :
       Mapped("toTopLeft", toTopLeft(Stage(mapping.width, mapping.height, o), Current),
              Trailed("toTopLeft", o))

CallCenter ==
  /\ mapping.kind = "screen"
  /\ op = "none"
  /\ \E o \in Origins :
       Mapped("center", center(Stage(mapping.width, mapping.height, o)),
              Trailed("center", o))

CallDefaultPlacement ==
  /\ mapping.kind = "screen"
  /\ op = "none"
  /\ \E o \in Origins :
       Mapped("defaultPlacement",
              defaultPlacement(Stage(mapping.width, mapping.height, o)),
              Trailed("defaultPlacement", o))

NextMapping ==
  \/ CallMapImage
  \/ CallToCenter
  \/ CallToTopLeft
  \/ CallCenter
  \/ CallDefaultPlacement

SpecMapping == InitMapping /\ [][NextMapping]_vars

----------------------------------------------------------------------------
(* StagesEngine: mount, the quality monitor and dispose.  A mount call runs *)
(* to its await in one step (the guard, this.container, the whole of        *)
(* renderer.initialize, which creates a new renderer and canvas on every    *)
(* call) and resumes in a later step; resumptions run in call order, and no *)
(* timer fires while one is pending.  accepted, appended, installed and     *)
(* started count what happened since construction or the last dispose.      *)

MaxMounts == 3

Element(id) == [t |-> "element", id |-> id]

\* the engine after its constructor ran with config.debug = debug
StagesEngine(debug) ==
  [mounted |-> FALSE,
   container |-> Null,
   adaptiveQuality |-> ~debug,
   canvas |-> 0,          \* renderer.canvas: 0 is null, else the canvas created k-th
   created |-> 0,         \* canvases created by renderer.initialize so far
   calls |-> <<>>,        \* the mount calls: their promise and their canvas
   children |-> {},       \* the canvases that are children of the container
   listeners |-> 0,       \* sets of DOM listeners on the container
   timers |-> 0,          \* pending setTimeout(monitor, ...) timers
   accepted |-> 0, appended |-> 0, installed |-> 0, started |-> 0]

InitEngine ==
  /\ defaults = ModuleDefaults
  /\ registry = <<>>
  /\ time = Num(0)
  /\ config = Undef
  /\ lastRef = Undef
  /\ op = "none"
  /\ wrappers = <<>>
  /\ pc = "idle"
  /\ result = Undef
  /\ regBefore = registry
  /\ mutations = 0
  /\ behavior = Undef
  /\ elapsed = Num(0)
  /\ mapping = Undef
  /\ engine \in {StagesEngine(debug) : debug \in BOOLEAN}

\* the bookkeeping of an engine step
Stepped(name, e) ==
  /\ op' = name
  /\ engine' = e
  /\ UNCHANGED <<defaults, registry, time, config, lastRef, wrappers, pc, result,
                 regBefore, mutations, behavior, elapsed, mapping>>

Awaiting == {k \in 1..Len(engine.calls) : engine.calls[k].pc = "awaiting"}

\* mount(container) up to its await: the guard throws, which rejects the
\* promise; else this.container is set and renderer.initialize runs
MountCall ==
  /\ Len(engine.calls) < MaxMounts
  /\ IF engine.mounted
     THEN Stepped("mount",
            [engine EXCEPT
               !.calls = Append(@, [pc |-> "rejected", canvas |-> 0,
                                    message |-> "StagesEngine: Already mounted"])])
     ELSE Stepped("mount",
            [engine EXCEPT
               !.container = Element("container"),
               !.created = @ + 1,
               !.canvas = engine.created + 1,
               !.accepted = @ + 1,
               !.calls = Append(@, [pc |-> "awaiting", canvas |-> engine.created + 1,
                                    message |-> ""])])

\* startQualityMonitoring(): setTimeout(monitor, 2000)
startQualityMonitoring(e) == [e EXCEPT !.timers = @ + 1, !.started = @ + 1]

\* mount past its await, for the call k: the canvas is appended, the
\* handlers are set up, monitoring starts, this.mounted = true
MountRest(e, k) ==
  [(IF e.adaptiveQuality THEN startQualityMonitoring(e) ELSE e) EXCEPT
     !.children = @ \cup {e.calls[k].canvas},
     !.appended = @ + 1,
     !.listeners = @ + 1,
     !.installed = @ + 1,
     !.mounted = TRUE,
     !.calls[k].pc = "resolved"]

\* the oldest pending mount call resumes
MountResume ==
  /\ Awaiting /= {}
  /\ Stepped("mount resumed",
             MountRest(engine, CHOOSE k \in Awaiting : \A j \in Awaiting : k <= j))

\* a monitor timer fires: it is set again while the engine is mounted
MonitorTick ==
  /\ engine.timers > 0
  /\ Awaiting = {}
  /\ Stepped("monitor",
             IF engine.mounted THEN engine ELSE [engine EXCEPT !.timers = @ - 1])

\* the canvas removal of dispose (lines 801-807), on the engine e
CanvasRemoved(e) ==
  IF e.container /= Null /\ e.canvas /= 0 /\ e.canvas \in e.children
  THEN [e EXCEPT !.children = @ \ {e.canvas}]
  ELSE e

\* dispose(): renderer.dispose() sets renderer.canvas to null before the
\* engine asks for it; the DOM listeners and the timers are left alone
Dispose ==
  /\ engine /= Undef
  /\ Stepped("dispose",
             [CanvasRemoved([engine EXCEPT !.mounted = FALSE, !.canvas = 0]) EXCEPT
                !.container = Null,
                !.accepted = 0, !.appended = 0, !.installed = 0, !.started = 0])

NextEngine ==
  \/ MountCall
  \/ MountResume
  \/ MonitorTick
  \/ Dispose

SpecEngine == InitEngine /\ [][NextEngine]_vars

----------------------------------------------------------------------------
(* Properties of validateLibraryConfig, over the behaviours of SpecValidate *)

MaxEntries == 2

Validated == op = "validateLibraryConfig" /\ pc = "returned"

\* the raw layers of the caller's config (none when layers is no array)
RawLayers == IF config.layers.t = "array" THEN config.layers.items ELSE <<>>

\* a raw layer gives no usable layerId: missing, empty, or not a string
NoId(layer) ==
  layer.t /= "object" \/ layer.layerId.t /= "string" \/ layer.layerId.s = ""

\* a raw string field that is given: a non-empty string
Given(v) == v.t = "string" /\ v.s /= ""

\* an earlier raw layer carries the same layerId as layer i
EarlierSameId(i) ==
  \E j \in 1..(i - 1) :
    ~NoId(RawLayers[j]) /\ RawLayers[j].layerId.s = RawLayers[i].layerId.s

\* every path an issue about the layer at index idx can carry
LayerPaths(idx) ==
  {LayerBase(idx) \o sfx :
     sfx \in {"", ".layerId", ".opacity", ".anchor", ".fitMode", ".alignment",
              ".behaviors.orbit", ".behaviors.spin.rpm", ".behaviors.pulse",
              ".behaviors.fade.rpm"}}
  \cup {LayerBase(idx) \o ".events." \o EventKeys[k] : k \in 1..Len(EventKeys)}
  \cup {LayerBase(idx) \o ".events." \o EventKeys[k] \o "[" \o ToString(j) \o "]" :
          k \in 1..Len(EventKeys), j \in 0..(MaxEntries - 1)}

IssuesAt(issues, idx) == SelectSeq(issues, LAMBDA e : e.path \in LayerPaths(idx))

\* the layer at position i recorded the one error code and nothing else
OnlyError(i, code) ==
  /\ Len(IssuesAt(result.errors, i - 1)) = 1
  /\ IssuesAt(result.errors, i - 1)[1].code = code
  /\ IssuesAt(result.errors, i - 1)[1].severity = "error"
  /\ IssuesAt(result.warnings, i - 1) = <<>>

\* the layer at position i, taken alone, records an error
InvalidAlone(i) == ValidateLayer(RawLayers[i], i - 1, {}, defaults).errors /= <<>>

\* C1: validation is atomic.  ok is true exactly when no error was recorded;
\* an error recorded anywhere (a layer, an event hook, layers not an array)
\* gives ok = false and a result without a normalized field, however many
\* other layers were valid; warnings alone leave ok true.
C1_ValidationAtomic ==
  Validated =>
    /\ result.ok <=> Len(result.errors) = 0
    /\ result.ok <=> "normalized" \in DOMAIN result
    /\ (\E i \in 1..Len(RawLayers) : InvalidAlone(i)) => ~result.ok
    /\ config.layers.t /= "array" => ~result.ok
    /\ \A i \in 1..Len(result.warnings) : result.warnings[i].severity = "warning"

\* a failed validation of two layers, one of which is valid taken alone
C1_Witness ==
  /\ Validated
  /\ ~result.ok
  /\ Len(RawLayers) = 2
  /\ \E i \in 1..2 : ~InvalidAlone(i)
  /\ \E i \in 1..2 : InvalidAlone(i)

\* C2: the identity and asset checks of a layer run in the order id present,
\* id unique, exactly one asset, and the first that fails records exactly one
\* error (layer.id.missing, layer.id.duplicate, layer.asset.invalid) and
\* nothing else, error or warning, for that layer.
C2_FirstFailureOnly ==
  Validated =>
    \A i \in 1..Len(RawLayers) :
      /\ NoId(RawLayers[i]) => OnlyError(i, "layer.id.missing")
      /\ ~NoId(RawLayers[i]) /\ EarlierSameId(i) => OnlyError(i, "layer.id.duplicate")
      /\ (/\ ~NoId(RawLayers[i])
          /\ ~EarlierSameId(i)
          /\ Given(RawLayers[i].imagePath) <=> Given(RawLayers[i].registryKey))
         => OnlyError(i, "layer.asset.invalid")

\* a duplicate id on a layer that also gives both asset fields, after a layer
\* that has no id and gives both asset fields
C2_Witness ==
  /\ Validated
  /\ Len(RawLayers) = 2
  /\ NoId(RawLayers[1]) /\ RawLayers[1].t = "object"
  /\ Given(RawLayers[1].imagePath) /\ Given(RawLayers[1].registryKey)
  /\ ~NoId(RawLayers[2])
  /\ Len(result.errors) = 2

\* C10: in an ok result the normalized layers carry non-empty, pairwise
\* distinct layerIds, and each carries the one asset reference its raw layer
\* gave: a path reference for a non-empty imagePath alone, a registry
\* reference for a non-empty registryKey alone.
C10_IdsAndAssetRefs ==
  (Validated /\ result.ok) =>
    LET layers == result.normalized.layers
    IN  /\ Len(layers) = Len(RawLayers)
        /\ \A i \in 1..Len(layers) :
             /\ layers[i].layerId /= ""
             /\ \A j \in 1..Len(layers) : layers[j].layerId = layers[i].layerId => j = i
             /\ Given(RawLayers[i].imagePath) /= Given(RawLayers[i].registryKey)
             /\ Given(RawLayers[i].imagePath) =>
                  layers[i].assetRef = [type |-> "path", path |-> RawLayers[i].imagePath.s]
             /\ Given(RawLayers[i].registryKey) =>
                  layers[i].assetRef =
                    [type |-> "registry", key |-> RawLayers[i].registryKey.s]

\* an ok result with a path layer and a registry layer
C10_Witness ==
  /\ Validated
  /\ result.ok
  /\ Len(result.normalized.layers) = 2
  /\ result.normalized.layers[1].assetRef.type = "path"
  /\ result.normalized.layers[2].assetRef.type = "registry"

----------------------------------------------------------------------------
(* Properties of the resolver, the producer and the pipelines, under Spec *)

PipelineOps == {"compose"} \cup BasicVariants

\* a call has just returned or thrown; regBefore is the registry it was given
JustCalled(names) == op \in names /\ pc \in {"returned", "thrown"}

\* validation of the caller's config records no error
ConfigValid == validateLibraryConfig(config, defaults).errors = <<>>

\* positions of the raw layers whose registryKey the registry does not hold
MissingKeys ==
  {i \in 1..Len(RawLayers) :
     /\ Given(RawLayers[i].registryKey)
     /\ RawLayers[i].registryKey.s \notin DOMAIN regBefore}

FirstMissing == CHOOSE i \in MissingKeys : \A j \in MissingKeys : i <= j

NotFound(key) == "registry key \"" \o key \o "\" not found"

\* C3: a successful produceLayers, compose or produceBasic* call preserves the
\* input order: as many layers as the config has, layers[i].id is the i-th
\* raw layerId and layers[i].zIndex is i (0-based), on every call made with
\* the config, first or repeated.
C3_OrderPreserved ==
  (pc = "returned" /\ op \in {"produceLayers"} \cup PipelineOps) =>
    /\ Len(result.value.layers) = Len(RawLayers)
    /\ \A i \in 1..Len(RawLayers) :
         /\ result.value.layers[i].id = RawLayers[i].layerId.s
         /\ result.value.layers[i].zIndex = i - 1

\* a pipeline returned two layers
C3_Witness ==
  /\ pc = "returned"
  /\ op \in PipelineOps
  /\ Len(result.value.layers) = 2
  /\ result.value.layers[2].zIndex = 1

\* C4: produceLayers is all-or-nothing.  It returns layers only when
\* validation recorded no error and every registry key is in the registry;
\* a failed validation throws "validation failed" before any asset is
\* resolved; a missing key throws 'registry key "<key>" not found' and no
\* layers are returned, whatever was resolved before it.
C4_AllOrNothing ==
  JustCalled({"produceLayers"}) =>
    /\ pc = "returned" <=> (ConfigValid /\ MissingKeys = {})
    /\ pc = "returned" <=> "value" \in DOMAIN result
    /\ ~ConfigValid =>
         /\ result.message = "produceLayers: validation failed: "
                               \o Reason(validateLibraryConfig(config, defaults))
         /\ result.resolved = 0
    /\ (ConfigValid /\ MissingKeys /= {}) =>
         /\ result.message = NotFound(RawLayers[FirstMissing].registryKey.s)
         /\ result.resolved = FirstMissing - 1

\* produceLayers threw on a missing key after an earlier layer had resolved
C4_Witness ==
  /\ op = "produceLayers"
  /\ pc = "thrown"
  /\ result.resolved >= 1
  /\ MissingKeys /= {}

\* C5: a compose or produceBasic* pipeline given a config that passes
\* validation but names a registry key the registry does not hold throws
\* 'registry key "<key>" not found' and emits no layers.
C5_PipelineThrowsOnMissingKey ==
  (JustCalled(PipelineOps) /\ ConfigValid /\ MissingKeys /= {}) =>
    /\ pc = "thrown"
    /\ result.message = NotFound(RawLayers[FirstMissing].registryKey.s)

\* a normalized layer as the caller reads it: its Vec2 fields looked up
ViewLayer(layer, D) ==
  [layer EXCEPT !.position = Deref(layer.position, D),
                !.scale = Deref(layer.scale, D),
                !.tilt = Deref(layer.tilt, D),
                !.anchor = Deref(layer.anchor, D)]

ViewResult(res, D) ==
  IF res.ok
  THEN [res EXCEPT !.normalized.layers = [i \in 1..Len(@) |-> ViewLayer(@[i], D)]]
  ELSE res

\* C6: what validateLibraryConfig and produceLayers give for an input does
\* not depend on the calls made before nor on what the caller wrote into the
\* objects those calls returned: it is what a freshly loaded module gives.
C6_IndependentOfHistory ==
  /\ (op = "validateLibraryConfig" /\ pc = "returned") =>
       ViewResult(result, defaults)
         = ViewResult(validateLibraryConfig(config, ModuleDefaults), ModuleDefaults)
  /\ JustCalled({"produceLayers"}) =>
       result = produceLayers(config, time, regBefore, ModuleDefaults)

\* C7: whatever the caller writes to the AssetMeta resolveAsset returned for
\* a registry reference, a field or its nested anchor in place, the entry
\* stored in the registry stays as it was.
C7_CloneIsolated ==
  (op = "resolveAsset" /\ pc = "mutated") => registry = regBefore

\* C8: resolveAsset, produceLayers and the pipelines only read the registry:
\* returning or throwing, the call leaves the same keys and the same entries.
C8_RegistryReadOnly ==
  JustCalled({"resolveAsset", "produceLayers"} \cup PipelineOps) =>
    registry = regBefore

\* produceLayers resolved a registry key and returned
C8_Witness ==
  /\ op = "produceLayers"
  /\ pc = "returned"
  /\ DOMAIN regBefore /= {}
  /\ \E i \in 1..Len(RawLayers) : Given(RawLayers[i].registryKey)

\* C9: resolveAsset decides on the tag alone.  A path reference returns
\* {src: path, width: NaN, height: NaN} whatever the registry holds; a
\* registry reference returns a value equal to the stored entry when the key
\* is present and throws 'registry key "<key>" not found' when it is not;
\* any other tag throws 'unknown asset ref type: <type>'.
C9_ResolveByTag ==
  JustCalled({"resolveAsset"}) =>
    /\ lastRef.type = "path" =>
         /\ pc = "returned"
         /\ result.value = [src |-> lastRef.path, width |-> NaN, height |-> NaN,
                            anchor |-> Undef, dpi |-> Undef]
    /\ (lastRef.type = "registry" /\ lastRef.key \in DOMAIN regBefore) =>
         /\ pc = "returned"
         /\ MetaView(result.value, regBefore) = regBefore[lastRef.key]
    /\ (lastRef.type = "registry" /\ lastRef.key \notin DOMAIN regBefore) =>
         /\ pc = "thrown"
         /\ result.message = NotFound(lastRef.key)
    /\ lastRef.type \notin {"path", "registry"} =>
         /\ pc = "thrown"
         /\ result.message = "unknown asset ref type: " \o lastRef.type

\* resolveAsset returned the entry stored under a key of the registry
C9_Witness ==
  /\ op = "resolveAsset"
  /\ pc = "returned"
  /\ lastRef.type = "registry"
  /\ lastRef.key \in DOMAIN regBefore
  /\ ~IsUndefined(result.value.anchor)

----------------------------------------------------------------------------
(* Range warnings and containers of validateLibraryConfig, over SpecValidate *)

\* number of issues with the given code recorded at the given path
CountCode(issues, code, path) ==
  Len(SelectSeq(issues, LAMBDA e : e.code = code /\ e.path = path))

\* raw.behaviors?.[b]?.[f]
RawBehavior(raw, b, f) == Get(Get(Get(raw, "behaviors"), b), f)

NegativeNum(v) == isNum(v) /\ QLt(v, Num(0))
OutsideUnit(v) == isNum(v) /\ (QLt(v, Num(0)) \/ QLt(Num(1), v))

\* a raw layer with its opacity, anchor and behaviors left out
WithoutRanged(layer) ==
  IF layer.t = "object"
  THEN [layer EXCEPT !.opacity = Undef, !.anchor = Undef, !.behaviors = Undef]
  ELSE layer

WithoutRangedConfig ==
  [config EXCEPT !.layers.items = [i \in 1..Len(@) |-> WithoutRanged(@[i])]]

\* the warning code is recorded once at the path if cond holds, else never
WarnedIff(cond, code, path) ==
  CountCode(result.warnings, code, path) = (IF cond THEN 1 ELSE 0)

RangeCodes ==
  {"layer.opacity.range", "layer.anchor.range", "behavior.orbit.range",
   "behavior.spin.range", "behavior.pulse.range", "behavior.fade.range"}

\* the raw number is the normalized one, whenever a finite number was given
Kept(rawValue, normValue) == isNum(rawValue) => normValue = rawValue

\* C11 for the layer at position i of an ok result
RangesKeptAt(i, raw, norm, base) ==
  /\ Kept(raw.opacity, norm.opacity)
  /\ WarnedIff(OutsideUnit(raw.opacity), "layer.opacity.range", base \o ".opacity")
  /\ isVec2(raw.anchor) => Deref(norm.anchor, defaults) = raw.anchor
  /\ WarnedIff(isVec2(raw.anchor)
                 /\ (OutsideUnit(raw.anchor.x) \/ OutsideUnit(raw.anchor.y)),
               "layer.anchor.range", base \o ".anchor")
  /\ Kept(RawBehavior(raw, "spin", "rpm"), norm.behaviors.spin.rpm)
  /\ Kept(RawBehavior(raw, "orbit", "rpm"), norm.behaviors.orbit.rpm)
  /\ Kept(RawBehavior(raw, "orbit", "radius"), norm.behaviors.orbit.radius)
  /\ Kept(RawBehavior(raw, "pulse", "rpm"), norm.behaviors.pulse.rpm)
  /\ Kept(RawBehavior(raw, "pulse", "amplitude"), norm.behaviors.pulse.amplitude)
  /\ Kept(RawBehavior(raw, "fade", "rpm"), norm.behaviors.fade.rpm)
  /\ WarnedIff(NegativeNum(RawBehavior(raw, "spin", "rpm")),
               "behavior.spin.range", base \o ".behaviors.spin.rpm")
  /\ WarnedIff(NegativeNum(RawBehavior(raw, "orbit", "rpm"))
                 \/ NegativeNum(RawBehavior(raw, "orbit", "radius")),
               "behavior.orbit.range", base \o ".behaviors.orbit")
  /\ WarnedIff(NegativeNum(RawBehavior(raw, "pulse", "rpm"))
                 \/ NegativeNum(RawBehavior(raw, "pulse", "amplitude")),
               "behavior.pulse.range", base \o ".behaviors.pulse")
  /\ WarnedIff(NegativeNum(RawBehavior(raw, "fade", "rpm")),
               "behavior.fade.range", base \o ".behaviors.fade.rpm")

\* C11: out-of-range values are warned about, never clamped and never
\* rejected.  A config is ok exactly when it is ok with every opacity, anchor
\* and behaviors left out; no error carries a range code; in an ok result a
\* finite opacity outside [0,1] records exactly one layer.opacity.range
\* warning and stays the normalized opacity, and likewise an anchor component
\* outside [0,1] and a negative rpm, radius or amplitude.
C11_WarnedNotClamped ==
  Validated =>
    /\ config.layers.t = "array" =>
         result.ok = validateLibraryConfig(WithoutRangedConfig, defaults).ok
    /\ \A k \in 1..Len(result.errors) : result.errors[k].code \notin RangeCodes
    /\ result.ok =>
         \A i \in 1..Len(RawLayers) :
           RangesKeptAt(i, RawLayers[i], result.normalized.layers[i], LayerBase(i - 1))

\* an ok result whose only layer has opacity 1.5, kept and warned about once
C11_Witness ==
  /\ Validated
  /\ result.ok
  /\ Len(RawLayers) = 1
  /\ RawLayers[1].opacity = Rat(3, 2)
  /\ result.normalized.layers[1].opacity = Rat(3, 2)
  /\ NegativeNum(RawBehavior(RawLayers[1], "orbit", "radius"))
  /\ Len(result.warnings) >= 2

\* a raw layer specifies one of its four container fields
BoxSpecified(raw) ==
  \/ ~IsUndefined(raw.layerWidth)
  \/ ~IsUndefined(raw.layerHeight)
  \/ ~IsUndefined(raw.fitMode)
  \/ ~IsUndefined(raw.alignment)

\* C20: in an ok result a normalized layer has a container exactly when its
\* raw layer specified one of layerWidth, layerHeight, fitMode, alignment,
\* and a container that is present carries a fitMode among contain, cover,
\* stretch and an alignment among the nine alignment values.
C20_ContainerComplete ==
  (Validated /\ result.ok) =>
    \A i \in 1..Len(RawLayers) :
      /\ ~IsUndefined(result.normalized.layers[i].container) <=> BoxSpecified(RawLayers[i])
      /\ ~IsUndefined(result.normalized.layers[i].container) =>
           /\ isFitMode(result.normalized.layers[i].container.fitMode)
           /\ isAlignment(result.normalized.layers[i].container.alignment)

----------------------------------------------------------------------------
(* Properties of the behavior functions, over SpecBehaviors *)

BehaviorOps == {"applySpin", "applyOrbit", "applyPulse", "applyFade"}

\* the behavior is switched off, or its rpm is not positive
SwitchedOff ==
  behavior.cfg.enabled = Bool(FALSE) \/ QLe(behavior.cfg.rpm, Num(0))

\* the case in which the behavior function called last must change nothing
NoOpCase ==
  \/ SwitchedOff
  \/ ~IsFinite(time)
  \/ op = "applyOrbit" /\ QLe(behavior.cfg.radius, Num(0))
  \/ op = "applyPulse" /\ QLe(behavior.cfg.amplitude, Num(0))

\* the quarter of the cycle (0..3) that rpm reaches at the time of the call
Phase == (QDiv(QMul(behavior.cfg.rpm, time), Num(15)).n) % 4

WholeQuarter == QDiv(QMul(behavior.cfg.rpm, time), Num(15)).d = 1

\* C12: applySpin, applyOrbit, applyPulse and applyFade return their prev
\* input (angle, position, scale, opacity) whenever the behavior is disabled,
\* its rpm is <= 0, the orbit radius or the pulse amplitude is <= 0, or the
\* time is NaN or infinite.
C12_NoOpReturnsPrev ==
  (op \in BehaviorOps /\ NoOpCase) => result = behavior.prev

\* an enabled orbit with positive rpm and radius 0 called at a finite time
C12_Witness ==
  /\ op = "applyOrbit"
  /\ ~SwitchedOff
  /\ IsFinite(time) /\ time /= Num(0)
  /\ behavior.cfg.radius = Num(0)
  /\ behavior.prev.position /= behavior.baseCenter

\* 6 * rpm * t, negated for ccw
SpinTurn(t) ==
  IF behavior.cfg.direction = Str("ccw")
  THEN QNeg(QMul(QMul(Num(6), behavior.cfg.rpm), t))
  ELSE QMul(QMul(Num(6), behavior.cfg.rpm), t)

\* C13: an active spin returns angle + 6*rpm*t for cw and angle - 6*rpm*t for
\* ccw, and it adds up over time: spin calls chained on each other's result
\* give what one call gives for the sum of their times.
C13_SpinAdditive ==
  (op = "applySpin" /\ ~SwitchedOff /\ IsFinite(elapsed)) =>
    result.angle = QAdd(behavior.prev.angle, SpinTurn(elapsed))

\* a ccw spin chained over two calls or more, 3 seconds in all
C13_Witness ==
  /\ op = "applySpin"
  /\ ~SwitchedOff
  /\ behavior.cfg.direction = Str("ccw")
  /\ time = Num(1)
  /\ elapsed = Num(3)
  /\ result.angle /= behavior.prev.angle

\* the center an orbit call circles around
OrbitCenter ==
  IF IsUndefined(behavior.cfg.center) THEN behavior.baseCenter ELSE behavior.cfg.center

OrbitDirection ==
  IF "direction" \in DOMAIN behavior.cfg THEN behavior.cfg.direction.s ELSE "cw"

Shifted(p, dx, dy) == [t |-> "object", x |-> QAdd(p.x, dx), y |-> QAdd(p.y, dy)]

OrbitActive == op = "applyOrbit" /\ ~NoOpCase

PulseFactor ==
  CASE Phase = 1 -> QAdd(Num(1), behavior.cfg.amplitude)
    [] Phase = 3 -> QSub(Num(1), behavior.cfg.amplitude)
    [] OTHER -> Num(1)

\* C15: an active pulse multiplies both scale axes by the same factor
\* 1 + amplitude*sin(2*pi*rpm*t/60): 1 at phase 0 and at the half cycle,
\* 1 + amplitude at the quarter and 1 - amplitude at the three-quarter
\* cycle, so result.x * prev.y = result.y * prev.x.
C15_PulseUniform ==
  (op = "applyPulse" /\ ~NoOpCase) =>
    /\ result.scale.x = QMul(behavior.prev.scale.x, PulseFactor)
    /\ result.scale.y = QMul(behavior.prev.scale.y, PulseFactor)
    /\ QMul(result.scale.x, behavior.prev.scale.y)
         = QMul(result.scale.y, behavior.prev.scale.x)

\* a non-uniform scale pulsed at the three-quarter cycle
C15_Witness ==
  /\ op = "applyPulse"
  /\ ~NoOpCase
  /\ Phase = 3
  /\ behavior.prev.scale.x /= behavior.prev.scale.y
  /\ result.scale /= behavior.prev.scale

Clamp01(v) == IF QLt(v, Num(0)) THEN Num(0) ELSE IF QLt(Num(1), v) THEN Num(1) ELSE v

\* the unclamped opacity of an active fade at each quarter of its cycle
FadeLevel ==
  CASE Phase = 1 -> behavior.cfg.to
    [] Phase = 3 -> behavior.cfg.from
    [] OTHER -> QDiv(QAdd(behavior.cfg.from, behavior.cfg.to), Num(2))

----------------------------------------------------------------------------
(* Properties of the composed transform, over Spec *)

BehaviorNames == {"spin", "orbit", "pulse", "fade"}

\* the behaviors the call made last applies
AppliedBy ==
  CASE op = "produceLayers" -> BehaviorNames
    [] op = "compose" -> {wrappers[k] : k \in 1..Len(wrappers)}
    [] op = "produceBasicSpin" -> {"spin"}
    [] op = "produceBasicOrbit" -> {"orbit"}
    [] op = "produceBasicPulse" -> {"pulse"}
    [] op = "produceBasicFade" -> {"fade"}
    [] OTHER -> {}

\* the normalized layer at position i, as validation of the config gives it
StaticLayer(i) ==
  ViewLayer(validateLibraryConfig(config, defaults).normalized.layers[i], defaults)

\* the static transform of a normalized layer
StaticTransform(norm) ==
  [position |-> norm.position, scale |-> norm.scale, angle |-> norm.angle,
   tilt |-> norm.tilt, anchor |-> norm.anchor, opacity |-> norm.opacity]

\* one behavior applied to a transform: it reads and writes its own channel
Step(tr, name, norm) ==
  CASE name = "spin" ->
         [tr EXCEPT !.angle = applySpin([angle |-> @], norm.behaviors.spin, time).angle]
    [] name = "orbit" ->
         [tr EXCEPT !.position =
            applyOrbit([position |-> @], norm.behaviors.orbit, time,
                       norm.position).position]
    [] name = "pulse" ->
         [tr EXCEPT !.scale = applyPulse([scale |-> @], norm.behaviors.pulse, time).scale]
    [] name = "fade" ->
         [tr EXCEPT !.opacity =
            applyFade([opacity |-> @], norm.behaviors.fade, time).opacity]

StepIf(tr, name, norm) == IF name \in AppliedBy THEN Step(tr, name, norm) ELSE tr

\* the four behaviors applied one after the other in the given order
Chained(order, norm) ==
  StepIf(StepIf(StepIf(StepIf(StaticTransform(norm), order[1], norm),
                       order[2], norm), order[3], norm), order[4], norm)

Orders ==
  {o \in [1..4 -> BehaviorNames] : \A a, b \in 1..4 : o[a] = o[b] => a = b}

ProducedBy(names) == pc = "returned" /\ op \in names

\* the channel of a behavior is the static one unless the behavior is applied
ChannelsAt(tr, norm) ==
  /\ tr.tilt = norm.tilt
  /\ tr.anchor = norm.anchor
  /\ tr.angle = IF "spin" \in AppliedBy
                THEN applySpin([angle |-> norm.angle], norm.behaviors.spin, time).angle
                ELSE norm.angle
  /\ tr.position = IF "orbit" \in AppliedBy
                   THEN applyOrbit([position |-> norm.position], norm.behaviors.orbit,
                                   time, norm.position).position
                   ELSE norm.position
  /\ tr.scale = IF "pulse" \in AppliedBy
                THEN applyPulse([scale |-> norm.scale], norm.behaviors.pulse, time).scale
                ELSE norm.scale
  /\ tr.opacity = IF "fade" \in AppliedBy
                  THEN applyFade([opacity |-> norm.opacity], norm.behaviors.fade,
                                 time).opacity
                  ELSE norm.opacity

\* C17: in the output of produceLayers and of every pipeline each behavior
\* writes its own transform channel from the static normalized value (spin
\* angle, orbit position, pulse scale, fade opacity), tilt and anchor are the
\* normalized layer's, and the final transform is what the behaviors give
\* when applied one after the other in any of their orders.
C17_DisjointChannels ==
  ProducedBy({"produceLayers"} \cup PipelineOps) =>
    \A i \in 1..Len(result.value.layers) :
      /\ ChannelsAt(result.value.layers[i].transform, StaticLayer(i))
      /\ \A o \in Orders :
           Chained(o, StaticLayer(i)) = result.value.layers[i].transform

\* produceLayers moved all four channels of a layer off their static values
C17_Witness ==
  /\ ProducedBy({"produceLayers"})
  /\ Len(result.value.layers) >= 1
  /\ \E i \in 1..Len(result.value.layers) :
       /\ result.value.layers[i].transform.angle /= StaticLayer(i).angle
       /\ result.value.layers[i].transform.position /= StaticLayer(i).position
       /\ result.value.layers[i].transform.scale /= StaticLayer(i).scale
       /\ result.value.layers[i].transform.opacity /= StaticLayer(i).opacity

\* C18: compose(W) applies a behavior exactly when its name occurs in W: a
\* behavior outside W leaves its channel at the static value even when the
\* config enables it; the result depends only on the set of names in W,
\* not on duplicates or order; compose([]) is produceBasic.
C18_ComposeBySet ==
  JustCalled({"compose"}) =>
    /\ pc = "returned" =>
         \A i \in 1..Len(result.value.layers) :
           ChannelsAt(result.value.layers[i].transform, StaticLayer(i))
    /\ \A w \in WrapperArrays :
         {w[k] : k \in 1..Len(w)} = AppliedBy =>
           compose(w, config, time, defaults) = result
    /\ wrappers = <<>> =>
         produceBasicVariant("produceBasic", config, time, defaults) = result

\* compose(['spin','spin','fade']) left the position of a layer with an
\* enabled orbit at its static value, and turned its angle
C18_Witness ==
  /\ ProducedBy({"compose"})
  /\ wrappers = <<"spin", "spin", "fade">>
  /\ \E i \in 1..Len(result.value.layers) :
       /\ result.value.layers[i].behaviors.orbit.enabled = Bool(TRUE)
       /\ result.value.layers[i].transform.position = StaticLayer(i).position
       /\ result.value.layers[i].transform.angle /= StaticLayer(i).angle

Flags(isVisible) ==
  [isHovered |-> FALSE, isPressed |-> FALSE, isActive |-> FALSE, isVisible |-> isVisible]

\* C19: every LayerData of produceLayers has state {isHovered: false,
\* isPressed: false, isActive: false, isVisible: true} whatever its final
\* opacity, 0 included; every LayerData of a pipeline has the three false
\* flags and isVisible true exactly when its final opacity is > 0.
C19_StateFlags ==
  /\ ProducedBy({"produceLayers"}) =>
       \A i \in 1..Len(result.value.layers) :
         result.value.layers[i].state = Flags(TRUE)
  /\ ProducedBy(PipelineOps) =>
       \A i \in 1..Len(result.value.layers) :
         result.value.layers[i].state
           = Flags(QLt(Num(0), result.value.layers[i].transform.opacity))

\* a pipeline produced a layer faded to opacity 0, next to a visible one
C19_Witness ==
  /\ ProducedBy(PipelineOps)
  /\ Len(result.value.layers) = 2
  /\ \E i \in 1..2 :
       /\ result.value.layers[i].transform.opacity = Num(0)
       /\ ~result.value.layers[i].state.isVisible
  /\ \E i \in 1..2 : result.value.layers[i].state.isVisible

----------------------------------------------------------------------------
(* Container sizes, behaviors, stage and fade endpoints of validated configs *)

\* a raw layer asks for a fit mode or an alignment
FitRequested(raw) == ~IsUndefined(raw.fitMode) \/ ~IsUndefined(raw.alignment)

\* a raw layerWidth or layerHeight that is missing, not finite, zero or negative
BadDimension(v) == ~isNum(v) \/ QLe(v, Num(0))

\* a finite and strictly positive number
PositiveFinite(v) == isNum(v) /\ QLt(Num(0), v)

\* C21: in an ok result a layer whose raw config specified fitMode or
\* alignment has a container whose width and height are finite and strictly
\* positive; a raw layer that specifies fitMode or alignment with a missing,
\* non-finite, zero or negative layerWidth or layerHeight makes validation fail.
C21_FitNeedsPositiveSize ==
  Validated =>
    \A i \in 1..Len(RawLayers) :
      (RawLayers[i].t = "object" /\ FitRequested(RawLayers[i])) =>
        /\ result.ok =>
             /\ PositiveFinite(result.normalized.layers[i].container.width)
             /\ PositiveFinite(result.normalized.layers[i].container.height)
        /\ (BadDimension(RawLayers[i].layerWidth) \/ BadDimension(RawLayers[i].layerHeight))
             => ~result.ok

C21_Witness ==
  /\ Validated
  /\ result.ok
  /\ Len(RawLayers) = 1
  /\ RawLayers[1].fitMode = Str("cover")
  /\ result.normalized.layers[1].container.width = Num(200)
  /\ result.normalized.layers[1].container.height = Num(100)

\* a normalized behaviors record whose every field has the declared type
WellTyped(b) ==
  /\ \A k \in {"spin", "orbit", "pulse", "fade"} :
       b[k].enabled.t = "boolean" /\ isNum(b[k].rpm)
  /\ b.spin.direction \in {Str("cw"), Str("ccw")}
  /\ isNum(b.orbit.radius)
  /\ isNum(b.pulse.amplitude)
  /\ isNum(b.fade.from) /\ isNum(b.fade.to)

\* every sub-field the raw layer left out has its default in the normalized record
DefaultsFilled(raw, b) ==
  \A k \in {"spin", "orbit", "pulse", "fade"} :
    \A f \in DOMAIN DEFAULT_BEHAVIORS[k] :
      IsUndefined(RawBehavior(raw, k, f)) => b[k][f] = DEFAULT_BEHAVIORS[k][f]

\* C22: in an ok result each normalized layer's behaviors record is complete
\* and well-typed whatever the raw input: every enabled is a boolean, every
\* rpm, radius, amplitude, from and to is a finite number, spin.direction is
\* cw or ccw, and a missing sub-field has its default.
C22_BehaviorsWellTyped ==
  (Validated /\ result.ok) =>
    \A i \in 1..Len(RawLayers) :
      /\ WellTyped(result.normalized.layers[i].behaviors)
      /\ DefaultsFilled(RawLayers[i], result.normalized.layers[i].behaviors)

\* the raw stage's field f, undefined when the stage is absent or no object
RawStage(f) == Get(Get(config, "stage"), f)

\* the size the normalized stage must carry for the raw value v
StageSize(v) == IF isNum(v) /\ QLt(Num(0), v) THEN v ELSE Num(2048)

\* an origin was supplied and is neither center nor top-left
OriginUnknown == ~IsUndefined(RawStage("origin")) /\ ~isOrigin(RawStage("origin"))

\* C23: stage normalization never produces an error (the errors are those of
\* the same config without its stage) and yields a usable stage: width and
\* height are finite and > 0, 2048 when the raw value is absent, non-finite
\* or <= 0 and the raw value otherwise; origin is center or top-left; one
\* warning stage.origin.invalid is recorded when a supplied origin is neither
\* of the two, and none otherwise.
C23_StageUsable ==
  Validated =>
    /\ result.errors = validateLibraryConfig(Config(Undef, config.layers), defaults).errors
    /\ CountCode(result.warnings, "stage.origin.invalid", "stage.origin")
         = IF OriginUnknown THEN 1 ELSE 0
    /\ \A k \in 1..Len(result.warnings) :
         result.warnings[k].code = "stage.origin.invalid" => k = 1
    /\ result.ok =>
         /\ PositiveFinite(result.normalized.stage.width)
         /\ PositiveFinite(result.normalized.stage.height)
         /\ result.normalized.stage.width = StageSize(RawStage("width"))
         /\ result.normalized.stage.height = StageSize(RawStage("height"))
         /\ result.normalized.stage.origin \in {Str("center"), Str("top-left")}
         /\ isOrigin(RawStage("origin"))
              => result.normalized.stage.origin = RawStage("origin")

C23_Witness ==
  /\ Validated
  /\ result.ok
  /\ RawStage("width") = Num(0)
  /\ RawStage("height") = Num(600)
  /\ RawStage("origin") = Null
  /\ result.normalized.stage = [width |-> Num(2048), height |-> Num(600),
                                origin |-> Str("center")]
  /\ CountCode(result.warnings, "stage.origin.invalid", "stage.origin") = 1

\* a raw layer with the from and to of its fade left out
WithoutFadeEnds(layer) ==
  IF Get(Get(layer, "behaviors"), "fade").t = "object"
  THEN [layer EXCEPT !.behaviors =
          [@ EXCEPT !.fade = [from |-> Undef, to |-> Undef] @@ @]]
  ELSE layer

WithoutFadeEndsConfig ==
  [config EXCEPT !.layers.items = [i \in 1..Len(@) |-> WithoutFadeEnds(@[i])]]

\* the normalized endpoint lies in [0,1] and is the nearest bound of a finite raw one
ClampedEnd(rawValue, normValue) ==
  /\ isNum(normValue) /\ ~OutOf01(normValue)
  /\ isNum(rawValue) => normValue = Clamp01(rawValue)

\* C27: in an ok result each layer's fade.from and fade.to lie in [0,1]; a
\* finite raw endpoint outside [0,1] is replaced by the nearest bound, and the
\* endpoints add no warning and no error: the issues are those of the same
\* config with the endpoints left out.
C27_FadeEndsClamped ==
  (Validated /\ config.layers.t = "array") =>
    /\ result.errors = validateLibraryConfig(WithoutFadeEndsConfig, defaults).errors
    /\ result.warnings = validateLibraryConfig(WithoutFadeEndsConfig, defaults).warnings
    /\ result.ok =>
         \A i \in 1..Len(RawLayers) :
           /\ ClampedEnd(RawBehavior(RawLayers[i], "fade", "from"),
                         result.normalized.layers[i].behaviors.fade.from)
           /\ ClampedEnd(RawBehavior(RawLayers[i], "fade", "to"),
                         result.normalized.layers[i].behaviors.fade.to)

C27_Witness ==
  /\ Validated
  /\ result.ok
  /\ Len(RawLayers) = 1
  /\ RawBehavior(RawLayers[1], "fade", "from") = Rat(3, 2)
  /\ RawBehavior(RawLayers[1], "fade", "to") = Rat(-1, 2)
  /\ result.normalized.layers[1].behaviors.fade.from = Num(1)
  /\ result.normalized.layers[1].behaviors.fade.to = Num(0)
  /\ result.warnings = <<>>

----------------------------------------------------------------------------
(* Event hooks and the full composer, over Spec *)

\* raw.events?.[k]
RawEvents(raw, k) == Get(Get(raw, "events"), k)

\* the hooks ev returned for the raw layer are its raw lists: a key that is
\* present is the raw list entry for entry, a raw list is never dropped or
\* shortened, and no entry is one the validator records an error for
PassedThrough(raw, ev) ==
  \A k \in {"onPress", "onHover", "onRelease"} :
    /\ ~IsUndefined(ev[k]) =>
         /\ ev[k] = RawEvents(raw, k)
         /\ \A j \in 1..Len(ev[k].items) : EntryErrors(ev[k].items[j], "") = <<>>
    /\ RawEvents(raw, k).t = "array" => ev[k] = RawEvents(raw, k)

\* C28: event hooks pass through unchanged wherever they can be observed.  In
\* an ok result of validateLibraryConfig and in the LayerData of every
\* produceLayers, compose or produceBasic* call that returned, each of
\* onPress, onHover, onRelease that is present is the raw list, entry for
\* entry in the same order; no entry has an unknown action or a set field
\* of the wrong type, and no raw list has lost an entry.
C28_EventsPassThrough ==
  /\ (op = "validateLibraryConfig" /\ pc = "returned" /\ result.ok) =>
       \A i \in 1..Len(RawLayers) :
         PassedThrough(RawLayers[i], result.normalized.layers[i].events)
  /\ (op \in {"produceLayers"} \cup PipelineOps /\ pc = "returned") =>
       \A i \in 1..Len(RawLayers) :
         PassedThrough(RawLayers[i], result.value.layers[i].events)

C28_Witness ==
  /\ op \in {"produceLayers", "compose"}
  /\ pc = "returned"
  /\ Len(RawLayers) = 1
  /\ RawEvents(RawLayers[1], "onPress").t = "array"
  /\ Len(RawEvents(RawLayers[1], "onPress").items) = 2
  /\ result.value.layers[1].events.onPress = RawEvents(RawLayers[1], "onPress")
  /\ result.value.layers[1].events.onHover = Undef
  /\ result.value.layers[1].events.onRelease = Arr(<<>>)

FullWrappers == <<"spin", "orbit", "pulse", "fade">>

\* the composed layer a and the produced layer b agree on id, zIndex, asset,
\* transform, container, behaviors, events and on every state flag but
\* isVisible, which may differ only when the final opacity is <= 0
SameButVisible(a, b) ==
  /\ [a EXCEPT !.state.isVisible = TRUE] = [b EXCEPT !.state.isVisible = TRUE]
  /\ a.state.isVisible /= b.state.isVisible => QLe(a.transform.opacity, Num(0))

\* the composed result c and the produced result p are equivalent
SameResults(c, p) ==
  /\ ~p.threw
  /\ c.value.warnings = p.value.warnings
  /\ Len(c.value.layers) = Len(p.value.layers)
  /\ \A i \in 1..Len(c.value.layers) : SameButVisible(c.value.layers[i], p.value.layers[i])

\* C29: for a config that passes validation and whose registry keys all
\* resolve, at every time, compose(["spin","orbit","pulse","fade"]) returns
\* what produceLayers returns: the same warnings and layers with identical id,
\* zIndex, asset, transform, container, behaviors and events; the results
\* differ at most in state.isVisible, and only where the final opacity is <= 0.
C29_FullComposerIsProducer ==
  (JustCalled({"compose"}) /\ wrappers = FullWrappers /\ ConfigValid /\ MissingKeys = {}) =>
    /\ pc = "returned"
    /\ SameResults(result, produceLayers(config, time, registry, defaults))

C29_Witness ==
  /\ JustCalled({"compose"})
  /\ wrappers = FullWrappers
  /\ pc = "returned"
  /\ MissingKeys = {}
  /\ Len(result.value.layers) = 2
  /\ ~result.value.layers[2].state.isVisible
  /\ result.value.layers[2].transform.opacity = Num(0)
  /\ produceLayers(config, time, registry, defaults).value.layers[2].state.isVisible
  /\ result.value.layers[1].state.isVisible
  /\ result.value.warnings = produceLayers(config, time, registry, defaults).value.warnings

----------------------------------------------------------------------------
(* Properties of the mapping functions, over SpecMapping *)

MappedImage == op = "mapImageIntoContainer" /\ pc = "returned"

\* a finite and strictly positive size
Usable(v) == IsFinite(v) /\ QLt(Num(0), v)

AssetUsable == Usable(mapping.asset.width) /\ Usable(mapping.asset.height)

\* a container was supplied and both its width and height are usable
ContainerUsable ==
  /\ mapping.container.t = "object"
  /\ Usable(mapping.container.width)
  /\ Usable(mapping.container.height)

\* the display size is the asset scaled by s
ScaledBy(s) ==
  /\ result.displayWidth = QMul(mapping.asset.width, s)
  /\ result.displayHeight = QMul(mapping.asset.height, s)

\* displayWidth * ah = displayHeight * aw
AspectKept ==
  QMul(result.displayWidth, mapping.asset.height)
    = QMul(result.displayHeight, mapping.asset.width)

\* the display equals the container on at least one axis
TouchesContainer ==
  \/ result.displayWidth = mapping.container.width
  \/ result.displayHeight = mapping.container.height

\* C24: for an asset and a container that both have finite positive width and
\* height: stretch gives exactly the container size; contain gives the asset
\* scaled by min(cw/aw, ch/ah), which fits inside the container on both axes
\* and equals it on at least one; cover gives the asset scaled by
\* max(cw/aw, ch/ah), which covers the container on both axes and equals it
\* on at least one; contain and cover keep the asset's aspect ratio.
C24_FitModes ==
  (MappedImage /\ AssetUsable /\ ContainerUsable) =>
    CASE mapping.container.fitMode = Str("stretch") ->
           /\ result.displayWidth = mapping.container.width
           /\ result.displayHeight = mapping.container.height
      [] mapping.container.fitMode = Str("contain") ->
           /\ ScaledBy(QMin(QDiv(mapping.container.width, mapping.asset.width),
                            QDiv(mapping.container.height, mapping.asset.height)))
           /\ QLe(result.displayWidth, mapping.container.width)
           /\ QLe(result.displayHeight, mapping.container.height)
           /\ TouchesContainer
           /\ AspectKept
      [] mapping.container.fitMode = Str("cover") ->
           /\ ScaledBy(QMax(QDiv(mapping.container.width, mapping.asset.width),
                            QDiv(mapping.container.height, mapping.asset.height)))
           /\ QLe(mapping.container.width, result.displayWidth)
           /\ QLe(mapping.container.height, result.displayHeight)
           /\ TouchesContainer
           /\ AspectKept

\* a 200x50 asset contained in a 300x150 box is shown 300x75
C24_Witness ==
  /\ MappedImage
  /\ mapping.asset.width = Num(200) /\ mapping.asset.height = Num(50)
  /\ ContainerUsable
  /\ mapping.container.fitMode = Str("contain")
  /\ mapping.container.width = Num(300) /\ mapping.container.height = Num(150)
  /\ result.displayWidth = Num(300)
  /\ result.displayHeight = Num(75)

\* a container was supplied with a width or height that is given but not
\* finite or not positive, or with only one of the two
ContainerUnusable ==
  /\ mapping.container.t = "object"
  /\ \/ ~IsUndefined(mapping.container.width) /\ ~Usable(mapping.container.width)
     \/ ~IsUndefined(mapping.container.height) /\ ~Usable(mapping.container.height)
     \/ IsUndefined(mapping.container.width) /= IsUndefined(mapping.container.height)

ZeroResult ==
  /\ result.displayWidth = Num(0)
  /\ result.displayHeight = Num(0)
  /\ result.offset = Point(Num(0), Num(0))

\* C25: mapImageIntoContainer fails closed: whenever the asset width or
\* height is non-finite or <= 0, or a supplied container has a non-finite or
\* non-positive dimension or gives only one of width and height, the result
\* is 0 x 0 with offset (0,0) for every fitMode and alignment; with no
\* container a usable asset is shown at its natural size with offset (0,0).
C25_FailsClosed ==
  MappedImage =>
    /\ (~AssetUsable \/ ContainerUnusable) => ZeroResult
    /\ (IsUndefined(mapping.container) /\ AssetUsable) =>
         /\ result.displayWidth = mapping.asset.width
         /\ result.displayHeight = mapping.asset.height
         /\ result.offset = Point(Num(0), Num(0))

ScreenStage(o) == Stage(mapping.width, mapping.height, o)

Call(fn, origin) == [fn |-> fn, origin |-> origin]

\* C26: screen conversions round-trip across origins.  For every stage size
\* and point p: the center-origin mapping's toTopLeft followed by the
\* top-left-origin mapping's toCenter returns p, and the top-left-origin
\* mapping's toCenter followed by the center-origin mapping's toTopLeft
\* returns p; toCenter is the identity on a center-origin stage and toTopLeft
\* on a top-left-origin stage; center() equals defaultPlacement(stage) for
\* both origins.
C26_ScreenRoundTrip ==
  (mapping.kind = "screen" /\ pc = "returned") =>
    /\ mapping.trail = <<Call("toTopLeft", Str("center")), Call("toCenter", Str("top-left"))>>
         => result = mapping.point
    /\ mapping.trail = <<Call("toCenter", Str("top-left")), Call("toTopLeft", Str("center"))>>
         => result = mapping.point
    /\ mapping.trail = <<Call("toCenter", Str("center"))>> => result = mapping.point
    /\ mapping.trail = <<Call("toTopLeft", Str("top-left"))>> => result = mapping.point
    /\ op = "center" => result = defaultPlacement(ScreenStage(mapping.trail[1].origin))
    /\ op = "defaultPlacement" => result = center(ScreenStage(mapping.trail[1].origin))

\* a point of a 3 x 1 stage went through half-integer coordinates and back
C26_Witness ==
  /\ mapping.kind = "screen"
  /\ mapping.width = Num(3)
  /\ mapping.point = Point(Rat(-1, 3), Rat(5, 2))
  /\ mapping.trail = <<Call("toTopLeft", Str("center")), Call("toCenter", Str("top-left"))>>
  /\ result = mapping.point

----------------------------------------------------------------------------
(* Properties of StagesEngine, over SpecEngine *)

\* C30: mount takes effect at most once per engine until dispose.  Of the
\* mount calls issued since construction or the last dispose, one at most
\* gets past the guard, whether the others are issued after it completed or
\* while it still awaits the renderer; so at most one canvas is appended to
\* the container, the DOM handlers are installed once and one
\* quality-monitoring loop is started.
C30_MountOnce ==
  engine /= Undef =>
    /\ engine.accepted <= 1
    /\ engine.appended <= 1
    /\ engine.installed <= 1
    /\ engine.started <= 1

====
